---- MODULE Spec2Model ----
(***************************************************************************)
(* Investment Manager: the FIFO lot ledger (utils/holdings.py), the symbol  *)
(* normalizer, the XIRR solver (utils/xirr.py), the net-worth, allocation   *)
(* and unified-XIRR aggregators (utils/net_worth.py), the zone parser       *)
(* (utils/zones.py) and the mutual-fund ledger (utils/mutual_funds.py), as  *)
(* state machines.                                                          *)
(*                                                                         *)
(* Strings are sequences of one-character strings, so that str.replace and *)
(* str.upper are computed character by character.  Quantities, prices and  *)
(* day numbers of the stock ledger are integers: the Python floats that    *)
(* hold them add, subtract and multiply exactly.  Everything else that the *)
(* code computes in floats is computed here bit by bit as IEEE-754         *)
(* binary64 (see the Float section).                                       *)
(***************************************************************************)
EXTENDS Integers, Sequences, FiniteSets, TLC

VARIABLES
    transactions,          \* calculate_holdings: the input list, as given
    today,                 \* datetime.now().date(), as a day number
    pc,                    \* position in the running operation
    sorted_transactions,   \* calculate_holdings: local sorted_transactions
    idx,                   \* index of the next transaction of the for loop
    holdings,              \* calculate_holdings: local dict, in insertion order
    oversold,              \* history: per bucket, units SELLs matched to no lot
    symbol_in,             \* normalize_symbol: the argument
    symbol_out,            \* normalize_symbol: the returned string
    calls,                 \* concurrent calculate_holdings calls: per call, its locals
    cash_flows,            \* xirr: the argument, a list of [date, amount]
    normalized_flows,      \* xirr: local normalized_flows, a list of [days, amount]
    rate,                  \* xirr: local rate
    iteration,             \* xirr: the loop variable
    xirr_result,           \* xirr: how the call ended, and the rate returned
    all_assets,            \* the argument of the aggregators: per asset type, its rows
    net_worth,             \* what calculate_total_net_worth returned
    type_flows,            \* calculate_unified_portfolio_xirr: stock_flows, ..., nps_flows
    all_cash_flows,        \* calculate_unified_portfolio_xirr: local all_cash_flows
    all_cash_flows_filtered, \* calculate_unified_portfolio_xirr: the overall stream
    xirr_by_type,          \* calculate_unified_portfolio_xirr: local xirr_by_type
    overall_xirr,          \* calculate_unified_portfolio_xirr: the 'overall_xirr' returned
    solving,               \* whose flows the running xirr call was given
    raised,                \* the exception that ended the aggregator, if one did
    allocation,            \* what get_asset_allocation returned
    zone_str,              \* parse_zone: the argument
    zone_result,           \* parse_zone: how the call ended, and the pair returned
    mf_transactions,       \* calculate_mf_holdings, calculate_mf_xirr: the argument
    mf_sorted,             \* calculate_mf_holdings: local sorted_transactions
    mf_idx,                \* calculate_mf_holdings: index of the next transaction
    mf_holdings,           \* calculate_mf_holdings: local holdings, in insertion order
    mf_raised,             \* the exception that ended the mutual-fund call, if one did
    mf_xirr                \* calculate_mf_xirr: what it returned

vars == <<transactions, today, pc, sorted_transactions, idx, holdings,
          oversold, symbol_in, symbol_out, calls,
          cash_flows, normalized_flows, rate, iteration, xirr_result,
          all_assets, net_worth, type_flows, all_cash_flows,
          all_cash_flows_filtered, xirr_by_type, overall_xirr, solving, raised,
          allocation, zone_str, zone_result,
          mf_transactions, mf_sorted, mf_idx, mf_holdings, mf_raised, mf_xirr>>

ledgerVars == <<transactions, today, sorted_transactions, idx, holdings, oversold>>
symbolVars == <<symbol_in, symbol_out>>
callVars   == <<calls>>
xirrVars   == <<cash_flows, normalized_flows, rate, iteration, xirr_result>>
portfolioVars == <<all_assets, net_worth, type_flows, all_cash_flows,
                   all_cash_flows_filtered, xirr_by_type, overall_xirr,
                   solving, raised, allocation>>
zoneVars   == <<zone_str, zone_result>>
mfVars     == <<mf_transactions, mf_sorted, mf_idx, mf_holdings, mf_raised,
                mf_xirr>>

\* what one call of calculate_holdings, of normalize_symbol, or of xirr never touches
outsideLedger == <<symbolVars, callVars, xirrVars, portfolioVars, zoneVars, mfVars>>
outsideSymbol == <<ledgerVars, callVars, xirrVars, portfolioVars, zoneVars, mfVars>>
outsideCalls  == <<ledgerVars, pc, symbolVars, xirrVars, portfolioVars, zoneVars,
                   mfVars>>
outsideXirr   == <<ledgerVars, symbolVars, callVars, portfolioVars, zoneVars,
                   mfVars>>
\* what the aggregators of utils/net_worth.py never touch
outsidePortfolio == <<ledgerVars, symbolVars, callVars, zoneVars, mfVars>>
\* what parse_zone, and the functions of utils/mutual_funds.py, never touch
outsideZone == <<ledgerVars, symbolVars, callVars, xirrVars, portfolioVars, mfVars>>
outsideMf   == <<ledgerVars, symbolVars, callVars, portfolioVars, zoneVars>>

-----------------------------------------------------------------------------
(* Bounds and input domains                                                *)

MaxTxns == 3
MaxSymLen == 4

Chars == {"A", "a", ".", "N", "n", "S", "s", "B", "b", "O", "o"}

ABC    == <<"A", "B", "C">>
ABC_NS == <<"A", "B", "C", ".", "N", "S">>
ABC_BO == <<"A", "B", "C", ".", "B", "O">>
XYZ_BO == <<"X", "Y", "Z", ".", "B", "O">>

Symbols      == {ABC, XYZ_BO}            \* Spec: two instruments
SymbolForms  == {ABC, ABC_NS, ABC_BO, XYZ_BO}   \* SpecSymbols: three forms of one instrument
Quantities   == {5, 10}
OneQuantity  == {10}
Dates        == {50, 100, 140}
TwoDates     == {50, 100}
Todays       == {150}

-----------------------------------------------------------------------------
(* Strings                                                                 *)

\* str.upper(), one character
UpperChar(c) ==
    CASE c = "a" -> "A"
      [] c = "b" -> "B"
      [] c = "n" -> "N"
      [] c = "o" -> "O"
      [] c = "s" -> "S"
      [] OTHER   -> c

StrUpper(s) == [i \in 1..Len(s) |-> UpperChar(s[i])]

\* str.replace(old, ''): leftmost non-overlapping occurrences, one pass
RECURSIVE StrRemove(_, _)
StrRemove(s, old) ==
    IF Len(s) < Len(old) THEN s
    ELSE IF SubSeq(s, 1, Len(old)) = old
         THEN StrRemove(SubSeq(s, Len(old) + 1, Len(s)), old)
         ELSE <<Head(s)>> \o StrRemove(Tail(s), old)

DotNS == <<".", "N", "S">>
DotBO == <<".", "B", "O">>

normalize_symbol(symbol) ==
    IF symbol = <<>> THEN <<>>
    ELSE StrUpper(StrRemove(StrRemove(symbol, DotNS), DotBO))

-----------------------------------------------------------------------------
(* Float: IEEE-754 binary64 values >= 0, as Python's float computes them.  *)
(* Integers wider than the checker's are sequences of 15-bit limbs, least  *)
(* significant first, without leading zero limbs (<<>> is 0).  A float is  *)
(* [m, e]: m is the 53-bit significand (2^52 <= m < 2^53) and the value is *)
(* m * 2^e; zero is [m |-> <<>>, e |-> 0].  Every operation computes the   *)
(* exact result and rounds it to nearest, ties to even.  Subnormals and    *)
(* overflow are out of range of the day counts and quantities used here.   *)

MantissaBits == 53
LimbBits == 14

RECURSIVE Pow2(_)
Pow2(k) == IF k = 0 THEN 1 ELSE 2 * Pow2(k - 1)

Limb == Pow2(LimbBits)

RECURSIVE BitLen(_)
BitLen(n) == IF n = 0 THEN 0 ELSE 1 + BitLen(n \div 2)

RECURSIVE BigNorm(_)
BigNorm(x) ==
    IF x # <<>> /\ x[Len(x)] = 0 THEN BigNorm(SubSeq(x, 1, Len(x) - 1)) ELSE x

RECURSIVE BigFromInt(_)
BigFromInt(n) == IF n = 0 THEN <<>> ELSE <<n % Limb>> \o BigFromInt(n \div Limb)

RECURSIVE BigToInt(_)
BigToInt(x) == IF x = <<>> THEN 0 ELSE x[1] + Limb * BigToInt(Tail(x))

BigBitLen(x) ==
    IF x = <<>> THEN 0 ELSE LimbBits * (Len(x) - 1) + BitLen(x[Len(x)])

\* x * k + carry, for 0 <= k < 2^15
RECURSIVE BigTimesSmall(_, _, _)
BigTimesSmall(x, k, carry) ==
    IF x = <<>> THEN BigFromInt(carry)
    ELSE LET v == x[1] * k + carry
         IN <<v % Limb>> \o BigTimesSmall(Tail(x), k, v \div Limb)

\* x + y + carry
RECURSIVE BigPlus(_, _, _)
BigPlus(x, y, carry) ==
    IF x = <<>> /\ y = <<>> THEN BigFromInt(carry)
    ELSE LET v == (IF x = <<>> THEN 0 ELSE x[1]) + (IF y = <<>> THEN 0 ELSE y[1]) + carry
         IN <<v % Limb>> \o BigPlus(IF x = <<>> THEN x ELSE Tail(x),
                                    IF y = <<>> THEN y ELSE Tail(y), v \div Limb)

\* quotient (not normalized) and remainder of x by d, for 0 < d < 2^15
RECURSIVE BigDivModSmall(_, _)
BigDivModSmall(x, d) ==
    IF x = <<>> THEN [q |-> <<>>, r |-> 0]
    ELSE LET hi  == BigDivModSmall(Tail(x), d)
             cur == hi.r * Limb + x[1]
         IN [q |-> <<cur \div d>> \o hi.q, r |-> cur % d]

BigShiftLeft(x, s) ==
    IF x = <<>> THEN x
    ELSE [i \in 1..(s \div LimbBits) |-> 0] \o BigTimesSmall(x, Pow2(s % LimbBits), 0)

BigShiftRight(x, s) ==
    IF s \div LimbBits >= Len(x) THEN <<>>
    ELSE BigNorm(BigDivModSmall(SubSeq(x, s \div LimbBits + 1, Len(x)),
                                Pow2(s % LimbBits)).q)

\* bit i of x (bit 0 is the least significant)
BigBit(x, i) ==
    IF i \div LimbBits >= Len(x) THEN 0
    ELSE (x[i \div LimbBits + 1] \div Pow2(i % LimbBits)) % 2

\* whether x mod 2^s = 0
BigLowBitsZero(x, s) ==
    /\ \A i \in 1..(s \div LimbBits) : i > Len(x) \/ x[i] = 0
    /\ s \div LimbBits >= Len(x) \/ x[s \div LimbBits + 1] % Pow2(s % LimbBits) = 0

FloatZero == [m |-> <<>>, e |-> 0]

\* The exact value x * 2^e (plus less than one unit of 2^e when sticky),
\* rounded to nearest-even at 53 bits.
FloatRound(x, e, sticky) ==
    LET n == BigBitLen(x) IN
    IF n = 0 THEN FloatZero
    ELSE IF n <= MantissaBits
    THEN [m |-> BigShiftLeft(x, MantissaBits - n), e |-> e - (MantissaBits - n)]
    ELSE LET drop  == n - MantissaBits
             kept  == BigShiftRight(x, drop)
             guard == BigBit(x, drop - 1)
             rest  == sticky \/ ~BigLowBitsZero(x, drop - 1)
             up    == guard = 1 /\ (rest \/ kept[1] % 2 = 1)
             r     == IF up THEN BigPlus(kept, <<>>, 1) ELSE kept
         IN IF BigBitLen(r) > MantissaBits
            THEN [m |-> BigShiftRight(r, 1), e |-> e + drop + 1]
            ELSE [m |-> r, e |-> e + drop]

\* a / b for integers 0 <= a, 0 < b < 2^15 (Python true division, correctly rounded)
FloatDiv(a, b) ==
    IF a = 0 THEN FloatZero
    ELSE LET s  == MantissaBits + 2 + BitLen(b) - BitLen(a)
             qr == BigDivModSmall(BigShiftLeft(BigFromInt(a), s), b)
         IN FloatRound(BigNorm(qr.q), 0 - s, qr.r # 0)

\* k * x for an integer 0 <= k < 2^15 and a float x (int * float)
FloatTimesInt(k, x) ==
    IF k = 0 \/ x.m = <<>> THEN FloatZero
    ELSE FloatRound(BigTimesSmall(x.m, k, 0), x.e, FALSE)

\* x + y for floats x, y >= 0
FloatPlus(x, y) ==
    IF x.m = <<>> THEN y
    ELSE IF y.m = <<>> THEN x
    ELSE LET e0 == IF x.e < y.e THEN x.e ELSE y.e
         IN FloatRound(BigPlus(BigShiftLeft(x.m, x.e - e0),
                               BigShiftLeft(y.m, y.e - e0), 0), e0, FALSE)

\* int(x) for a float x >= 0: truncation toward zero
FloatToInt(x) ==
    IF x.m = <<>> THEN 0
    ELSE IF x.e >= 0 THEN BigToInt(BigShiftLeft(x.m, x.e))
    ELSE BigToInt(BigShiftRight(x.m, 0 - x.e))

\* x < y, for normalized x and y of Len i
RECURSIVE BigLessFrom(_, _, _)
BigLessFrom(x, y, i) ==
    IF i = 0 THEN FALSE
    ELSE IF x[i] # y[i] THEN x[i] < y[i]
    ELSE BigLessFrom(x, y, i - 1)

BigLess(x, y) ==
    IF Len(x) # Len(y) THEN Len(x) < Len(y) ELSE BigLessFrom(x, y, Len(x))

\* x - y - borrow, for x >= y + borrow (not normalized)
RECURSIVE BigMinusFrom(_, _, _)
BigMinusFrom(x, y, borrow) ==
    IF x = <<>> THEN <<>>
    ELSE LET v == x[1] - (IF y = <<>> THEN 0 ELSE y[1]) - borrow
         IN <<IF v < 0 THEN v + Limb ELSE v>>
            \o BigMinusFrom(Tail(x), IF y = <<>> THEN y ELSE Tail(y),
                            IF v < 0 THEN 1 ELSE 0)

BigMinus(x, y) == BigNorm(BigMinusFrom(x, y, 0))

RECURSIVE BigTimes(_, _)
BigTimes(x, y) ==
    IF x = <<>> \/ y = <<>> THEN <<>>
    ELSE BigNorm(BigPlus(BigTimesSmall(x, y[1], 0), <<0>> \o BigTimes(x, Tail(y)), 0))

RECURSIVE BigPower(_, _)
BigPower(x, k) == IF k = 0 THEN <<1>> ELSE BigTimes(x, BigPower(x, k - 1))

\* the largest d in lo..hi with y * d <= r, given y * lo <= r
RECURSIVE DigitBetween(_, _, _, _)
DigitBetween(r, y, lo, hi) ==
    IF lo >= hi THEN lo
    ELSE LET mid == (lo + hi + 1) \div 2
         IN IF BigLess(r, BigTimesSmall(y, mid, 0))
            THEN DigitBetween(r, y, lo, mid - 1)
            ELSE DigitBetween(r, y, mid, hi)

\* r \div y for r < y * Limb: the two leading limbs of r and the leading limb
\* of y bound the digit from both sides
Digit(r, y) ==
    LET n  == Len(y)
        rt == (IF Len(r) > n THEN r[n + 1] * Limb ELSE 0)
              + (IF Len(r) >= n THEN r[n] ELSE 0)
        hi == rt \div y[n]
    IN DigitBetween(r, y, rt \div (y[n] + 1), IF hi < Limb THEN hi ELSE Limb - 1)

\* quotient and remainder of x by y # 0: long division, one limb at a time
RECURSIVE BigDivMod(_, _)
BigDivMod(x, y) ==
    IF BigLess(x, y) THEN [q |-> <<>>, r |-> x]
    ELSE LET h == BigDivMod(x, <<0>> \o y)
             d == Digit(h.r, y)
         IN [q |-> BigNorm(<<d>> \o h.q),
             r |-> IF d = 0 THEN h.r ELSE BigMinus(h.r, BigTimesSmall(y, d, 0))]

\* |x| < |y|
FloatLess(x, y) ==
    IF y.m = <<>> THEN FALSE
    ELSE IF x.m = <<>> THEN TRUE
    ELSE IF x.e # y.e THEN x.e < y.e
    ELSE BigLess(x.m, y.m)

\* x - y for floats x >= y >= 0
FloatMinus(x, y) ==
    IF y.m = <<>> THEN x
    ELSE LET e0 == IF x.e < y.e THEN x.e ELSE y.e
         IN FloatRound(BigMinus(BigShiftLeft(x.m, x.e - e0),
                                BigShiftLeft(y.m, y.e - e0)), e0, FALSE)

\* x * y for floats x, y >= 0
FloatTimes(x, y) ==
    IF x.m = <<>> \/ y.m = <<>> THEN FloatZero
    ELSE FloatRound(BigTimes(x.m, y.m), x.e + y.e, FALSE)

\* x / y for floats x >= 0, y > 0.  The divisor is shifted to fill its
\* leading limb, which keeps the digit bounds of the long division tight.
FloatQuot(x, y) ==
    IF x.m = <<>> THEN FloatZero
    ELSE LET fill == (LimbBits - (MantissaBits % LimbBits)) % LimbBits
             qr   == BigDivMod(BigShiftLeft(x.m, MantissaBits + 2 + fill),
                               BigShiftLeft(y.m, fill))
         IN FloatRound(qr.q, x.e - y.e - (MantissaBits + 2), qr.r # <<>>)

\* x ** y for a float x > 0 and a float y whose value is the natural number
\* k.  The C library's pow() is exact when the power is a float (k = 0 and
\* k = 1 always are) and otherwise returns one of the two floats next to the
\* exact power, which of them depending on the library: both are outcomes.
FloatPowers(x, k) ==
    LET p == BigPower(x.m, k)
        n == BigBitLen(p)
    IN IF n <= MantissaBits \/ BigLowBitsZero(p, n - MantissaBits)
       THEN { FloatRound(p, x.e * k, FALSE) }
       ELSE LET drop == n - MantissaBits
                kept == BigShiftRight(p, drop)
            IN { [m |-> kept, e |-> x.e * k + drop],
                 FloatRound(BigPlus(kept, <<>>, 1), x.e * k + drop, FALSE) }

\* Signed floats: [neg, m, e], the value being -m * 2^e when neg.  Zero is
\* kept without sign: -0.0 compares, adds and tests for truth as 0.0 does.
Fl(neg, x) ==
    IF x.m = <<>> THEN [neg |-> FALSE, m |-> <<>>, e |-> 0]
    ELSE [neg |-> neg, m |-> x.m, e |-> x.e]

Abs(n) == IF n < 0 THEN 0 - n ELSE n

\* float(n) for an integer n
FlInt(n) == Fl(n < 0, FloatRound(BigFromInt(Abs(n)), 0, FALSE))

\* the float nearest to a / b, b > 0: a decimal literal, or int / float
FlRatio(a, b) == Fl(a < 0, FloatQuot(FlInt(Abs(a)), FlInt(b)))

FlNeg(x) == Fl(~x.neg, x)

FlAbs(x) == Fl(FALSE, x)

FlIsZero(x) == x.m = <<>>

FlAdd(x, y) ==
    IF x.neg = y.neg THEN Fl(x.neg, FloatPlus(x, y))
    ELSE IF FloatLess(x, y) THEN Fl(y.neg, FloatMinus(y, x))
    ELSE Fl(x.neg, FloatMinus(x, y))

FlSub(x, y) == FlAdd(x, FlNeg(y))

FlMul(x, y) == Fl(x.neg # y.neg, FloatTimes(x, y))

FlDiv(x, y) == Fl(x.neg # y.neg, FloatQuot(x, y))

\* x < y
FlLt(x, y) ==
    IF x.neg # y.neg THEN x.neg
    ELSE IF x.neg THEN FloatLess(y, x)
    ELSE FloatLess(x, y)

FlLe(x, y) == ~FlLt(y, x)

\* round(x, 2): the decimal with two places nearest to the exact value of x
\* (ties to even), then the float nearest to that decimal
FlRound2(x) ==
    IF x.m = <<>> THEN x
    ELSE LET t     == BigTimesSmall(x.m, 100, 0)
             whole == IF x.e >= 0 THEN BigShiftLeft(t, x.e)
                      ELSE BigShiftRight(t, 0 - x.e)
             guard == IF x.e >= 0 THEN 0 ELSE BigBit(t, 0 - x.e - 1)
             rest  == x.e < 0 /\ ~BigLowBitsZero(t, 0 - x.e - 1)
             odd   == whole # <<>> /\ whole[1] % 2 = 1
             cents == IF guard = 1 /\ (rest \/ odd)
                      THEN BigPlus(whole, <<>>, 1) ELSE whole
         IN Fl(x.neg, FloatQuot(FloatRound(cents, 0, FALSE), FlInt(100)))

-----------------------------------------------------------------------------
(* The FIFO lot ledger.  A lot is the tuple <<date, quantity, price>>.     *)

RECURSIVE SumQuantity(_)
SumQuantity(lots) ==
    IF lots = <<>> THEN 0 ELSE Head(lots)[2] + SumQuantity(Tail(lots))

\* the for loop of calculate_holding_period_days
RECURSIVE WeightedDays(_, _, _, _)
WeightedDays(lots, now, total_quantity, weighted_days) ==
    IF lots = <<>> THEN weighted_days
    ELSE LET purchase_date == Head(lots)[1]
             quantity      == Head(lots)[2]
             days_held     == now - purchase_date
             weight        == FloatDiv(quantity, total_quantity)
         IN WeightedDays(Tail(lots), now, total_quantity,
                         FloatPlus(weighted_days, FloatTimesInt(days_held, weight)))

calculate_holding_period_days(lots, now) ==
    IF lots = <<>> THEN 0
    ELSE LET total_quantity == SumQuantity(lots) IN
         IF total_quantity = 0 THEN 0
         ELSE FloatToInt(WeightedDays(lots, now, total_quantity, FloatZero))

\* A mutant of InsertByDate: an unstable sort, a transaction goes before
\* those of its own date.
RECURSIVE InsertBeforeTies(_, _)
InsertBeforeTies(s, t) ==
    IF s = <<>> THEN <<t>>
    ELSE IF Head(s).transaction_date < t.transaction_date
         THEN <<Head(s)>> \o InsertBeforeTies(Tail(s), t)
         ELSE <<t>> \o s

\* sorted(transactions, key=lambda t: t.transaction_date): stable, ascending
RECURSIVE InsertByDate(_, _)
InsertByDate(s, t) ==
    IF s = <<>> THEN <<t>>
    ELSE IF Head(s).transaction_date <= t.transaction_date
         THEN <<Head(s)>> \o InsertByDate(Tail(s), t)
         ELSE <<t>> \o s

\* A mutant of sorted: the list is processed in the order given.
sorted_as_given(s) == s

RECURSIVE sorted(_)
sorted(s) ==
    IF s = <<>> THEN <<>>
    ELSE InsertByDate(sorted(SubSeq(s, 1, Len(s) - 1)), s[Len(s)])

\* the scan "for key in holdings.keys(): if normalize_symbol(key) == normalized":
\* the index of the first bucket whose key normalizes alike, 0 for None
RECURSIVE FindFrom(_, _, _)
FindFrom(h, normalized, i) ==
    IF i > Len(h) THEN 0
    ELSE IF normalize_symbol(h[i].symbol) = normalized THEN i
    ELSE FindFrom(h, normalized, i + 1)

\* A mutant of existing_key: buckets are looked up by literal symbol only.
existing_key_none(h, normalized) == 0

existing_key(h, normalized) == FindFrom(h, normalized, 1)

\* "if symbol not in holdings": the index of the bucket keyed symbol, 0 if none
RECURSIVE KeyIndexFrom(_, _, _)
KeyIndexFrom(h, symbol, i) ==
    IF i > Len(h) THEN 0
    ELSE IF h[i].symbol = symbol THEN i
    ELSE KeyIndexFrom(h, symbol, i + 1)

KeyIndex(h, symbol) == KeyIndexFrom(h, symbol, 1)

\* the bucket calculate_holdings creates for a symbol seen for the first time
NewBucket(symbol, txn) ==
    [symbol          |-> symbol,
     name            |-> txn.stock_name,
     quantity        |-> 0,
     invested_amount |-> 0,
     realized_pnl    |-> 0,
     transactions    |-> <<>>,
     lots            |-> <<>>]

\* A mutant of SellLoop: lots are consumed from the tail of the queue (LIFO).
RECURSIVE SellLoopLifo(_, _, _, _, _)
SellLoopLifo(lots, remaining_to_sell, total_cost_basis, realized_pnl, price) ==
    IF remaining_to_sell > 0 /\ lots # <<>>
    THEN LET n         == Len(lots)
             lot_date  == lots[n][1]
             lot_qty   == lots[n][2]
             lot_price == lots[n][3]
         IN IF lot_qty <= remaining_to_sell
            THEN SellLoopLifo(SubSeq(lots, 1, n - 1),
                              remaining_to_sell - lot_qty,
                              total_cost_basis + lot_qty * lot_price,
                              realized_pnl + (price - lot_price) * lot_qty,
                              price)
            ELSE SellLoopLifo(SubSeq(lots, 1, n - 1)
                                  \o <<<<lot_date, lot_qty - remaining_to_sell, lot_price>>>>,
                              0,
                              total_cost_basis + remaining_to_sell * lot_price,
                              realized_pnl + (price - lot_price) * remaining_to_sell,
                              price)
    ELSE [lots              |-> lots,
          remaining_to_sell |-> remaining_to_sell,
          total_cost_basis  |-> total_cost_basis,
          realized_pnl      |-> realized_pnl]

\* A mutant of SellLoop: a lot is popped only when the SELL needs more than it
\* holds ("<" for "<="), so a lot emptied exactly stays in the queue.
RECURSIVE SellLoopKeepsEmptyLot(_, _, _, _, _)
SellLoopKeepsEmptyLot(lots, remaining_to_sell, total_cost_basis, realized_pnl, price) ==
    IF remaining_to_sell > 0 /\ lots # <<>>
    THEN LET lot_date  == lots[1][1]
             lot_qty   == lots[1][2]
             lot_price == lots[1][3]
         IN IF lot_qty < remaining_to_sell
            THEN SellLoopKeepsEmptyLot(Tail(lots),
                                       remaining_to_sell - lot_qty,
                                       total_cost_basis + lot_qty * lot_price,
                                       realized_pnl + (price - lot_price) * lot_qty,
                                       price)
            ELSE SellLoopKeepsEmptyLot(
                     <<<<lot_date, lot_qty - remaining_to_sell, lot_price>>>> \o Tail(lots),
                     0,
                     total_cost_basis + remaining_to_sell * lot_price,
                     realized_pnl + (price - lot_price) * remaining_to_sell,
                     price)
    ELSE [lots              |-> lots,
          remaining_to_sell |-> remaining_to_sell,
          total_cost_basis  |-> total_cost_basis,
          realized_pnl      |-> realized_pnl]

\* the while loop of a SELL: consume lots from the head of the queue
RECURSIVE SellLoop(_, _, _, _, _)
SellLoop(lots, remaining_to_sell, total_cost_basis, realized_pnl, price) ==
    IF remaining_to_sell > 0 /\ lots # <<>>
    THEN LET lot_date  == lots[1][1]
             lot_qty   == lots[1][2]
             lot_price == lots[1][3]
         IN IF lot_qty <= remaining_to_sell
            THEN SellLoop(Tail(lots),
                          remaining_to_sell - lot_qty,
                          total_cost_basis + lot_qty * lot_price,
                          realized_pnl + (price - lot_price) * lot_qty,
                          price)
            ELSE SellLoop(<<<<lot_date, lot_qty - remaining_to_sell, lot_price>>>>
                              \o Tail(lots),
                          0,
                          total_cost_basis + remaining_to_sell * lot_price,
                          realized_pnl + (price - lot_price) * remaining_to_sell,
                          price)
    ELSE [lots              |-> lots,
          remaining_to_sell |-> remaining_to_sell,
          total_cost_basis  |-> total_cost_basis,
          realized_pnl      |-> realized_pnl]

\* the bucket after the BUY branch
Buy(b, txn) ==
    [b EXCEPT !.lots = Append(@, <<txn.transaction_date, txn.quantity, txn.price>>),
              !.quantity = @ + txn.quantity,
              !.invested_amount = @ + txn.quantity * txn.price]

\* A mutant of Sell: the quantity is reduced by the matched units only (clamped).
SellClamped(b, txn) ==
    LET r == SellLoop(b.lots, txn.quantity, 0, b.realized_pnl, txn.price)
    IN [b EXCEPT !.lots = r.lots,
                 !.realized_pnl = r.realized_pnl,
                 !.quantity = @ - (txn.quantity - r.remaining_to_sell),
                 !.invested_amount = @ - r.total_cost_basis]

\* A mutant of Sell: the proceeds, not the cost basis, leave invested_amount.
SellAtSalePrice(b, txn) ==
    LET r == SellLoop(b.lots, txn.quantity, 0, b.realized_pnl, txn.price)
    IN [b EXCEPT !.lots = r.lots,
                 !.realized_pnl = r.realized_pnl,
                 !.quantity = @ - txn.quantity,
                 !.invested_amount = @ - txn.quantity * txn.price]

\* A mutant of Sell: a SELL of more than the lots hold is skipped.
SellRefusingOversell(b, txn) ==
    LET r == SellLoop(b.lots, txn.quantity, 0, b.realized_pnl, txn.price)
    IN IF r.remaining_to_sell > 0 THEN b
       ELSE [b EXCEPT !.lots = r.lots,
                      !.realized_pnl = r.realized_pnl,
                      !.quantity = @ - txn.quantity,
                      !.invested_amount = @ - r.total_cost_basis]

\* the bucket after the SELL branch
Sell(b, txn) ==
    LET r == SellLoop(b.lots, txn.quantity, 0, b.realized_pnl, txn.price)
    IN [b EXCEPT !.lots = r.lots,
                 !.realized_pnl = r.realized_pnl,
                 !.quantity = @ - txn.quantity,
                 !.invested_amount = @ - r.total_cost_basis]

\* units of a SELL that the while loop matched to no lot (history only)
Unmatched(b, txn) ==
    IF txn.transaction_type = "SELL"
    THEN SellLoop(b.lots, txn.quantity, 0, 0, txn.price).remaining_to_sell
    ELSE 0

\* the index, in the dict of one loop iteration, of the bucket txn goes to
BucketOf(h, txn) ==
    LET found  == existing_key(h, normalize_symbol(txn.stock_symbol))
        symbol == IF found # 0 THEN h[found].symbol ELSE txn.stock_symbol
        at     == KeyIndex(h, symbol)
    IN IF at # 0 THEN at ELSE Len(h) + 1

\* one iteration of "for txn in sorted_transactions"
ProcessOne(h, txn) ==
    LET found  == existing_key(h, normalize_symbol(txn.stock_symbol))
        symbol == IF found # 0 THEN h[found].symbol ELSE txn.stock_symbol
        at     == KeyIndex(h, symbol)
        h1     == IF at = 0 THEN Append(h, NewBucket(symbol, txn)) ELSE h
        k      == IF at = 0 THEN Len(h1) ELSE at
        b      == h1[k]
        b1     == IF txn.transaction_type = "BUY" THEN Buy(b, txn)
                  ELSE IF txn.transaction_type = "SELL" THEN Sell(b, txn)
                  ELSE b
    IN [h1 EXCEPT ![k] = [b1 EXCEPT !.transactions = Append(@, txn)]]

\* the closing loop: flag current holdings, compute the holding period, drop lots
FinalBucket(b, now) ==
    [symbol               |-> b.symbol,
     name                 |-> b.name,
     quantity             |-> b.quantity,
     invested_amount      |-> b.invested_amount,
     realized_pnl         |-> b.realized_pnl,
     transactions         |-> b.transactions,
     has_current_holdings |-> b.quantity > 0,
     holding_period_days  |-> IF b.quantity > 0
                              THEN calculate_holding_period_days(b.lots, now)
                              ELSE 0]

\* A mutant of FinalHoldings: only open positions are returned.
FinalHoldingsOpenOnly(h, now) ==
    LET open == SelectSeq(h, LAMBDA b : b.quantity > 0)
    IN [i \in 1..Len(open) |-> FinalBucket(open[i], now)]

FinalHoldings(h, now) == [i \in 1..Len(h) |-> FinalBucket(h[i], now)]

\* the for loop over a whole sorted list
RECURSIVE ProcessAll(_, _)
ProcessAll(h, txns) ==
    IF txns = <<>> THEN h ELSE ProcessAll(ProcessOne(h, Head(txns)), Tail(txns))

\* calculate_holdings as a function of its list and of today
calculate_holdings(txns, now) == FinalHoldings(ProcessAll(<<>>, sorted(txns)), now)

-----------------------------------------------------------------------------
(* The XIRR solver (utils/xirr.py).  A cash flow is [date, amount]: a day   *)
(* number and a float.  Dates lie whole years of 365 days apart, so that    *)
(* every exponent handed to pow() is a whole number.                        *)

max_iterations == 100

\* guess: float = 0.1
DefaultGuess == FlRatio(1, 10)

\* tolerance: float = 1e-6
tolerance == FlRatio(1, 1000000)

\* the literal -0.99 of lines 80-81
RateFloor == FlRatio(-99, 100)

None == [kind |-> "None", rate |-> FlInt(0)]

Pending == [kind |-> "pending", rate |-> FlInt(0)]

OverflowError == [kind |-> "OverflowError", rate |-> FlInt(0)]

Returned(r) == [kind |-> "rate", rate |-> r]

RECURSIVE InsertFlowByDate(_, _)
InsertFlowByDate(s, f) ==
    IF s = <<>> THEN <<f>>
    ELSE IF Head(s).date <= f.date THEN <<Head(s)>> \o InsertFlowByDate(Tail(s), f)
    ELSE <<f>> \o s

\* line 35: sorted(normalized_cash_flows, key=lambda x: x[0])
RECURSIVE SortedFlows(_)
SortedFlows(s) ==
    IF s = <<>> THEN <<>>
    ELSE InsertFlowByDate(SortedFlows(SubSeq(s, 1, Len(s) - 1)), s[Len(s)])

\* A mutant of Signs: an amount of zero counts as an outflow.
SignsCountingZero(flows) ==
    { IF flows[i].amount.neg \/ FlIsZero(flows[i].amount) THEN -1 ELSE 1 :
        i \in 1..Len(flows) }

\* line 38: the signs of the non-zero amounts
Signs(flows) ==
    { IF flows[i].amount.neg THEN -1 ELSE 1 :
        i \in { j \in 1..Len(flows) : ~FlIsZero(flows[j].amount) } }

\* lines 43-49: days from the first date
NormalizedFlows(flows) ==
    [i \in 1..Len(flows) |->
        [days |-> flows[i].date - flows[1].date, amount |-> flows[i].amount]]

\* line 59: years = days / 365.0
Years(days) == FlRatio(days, 365)

\* the largest exponent of the loop body: years + 1 of the last flow
MaxPower(flows) ==
    IF flows = <<>> THEN 0 ELSE FloatToInt(Years(flows[Len(flows)].days)) + 1

\* The results pow() can give for base ** 0.0, ..., base ** k: the tables t
\* with t[j + 1] one of the values of base ** j.
RECURSIVE PowerTables(_, _)
PowerTables(base, k) ==
    IF k < 0 THEN { <<>> }
    ELSE { Append(t, Fl(FALSE, f)) :
             t \in PowerTables(base, k - 1), f \in FloatPowers(base, k) }

\* pow() sets ERANGE, and Python raises OverflowError, when the power is
\* beyond the largest float
Overflows(x) == x.m # <<>> /\ x.e + MantissaBits > 1024

\* a float the hardware holds as the model does: zero or normal
IsNormal(x) == x.m = <<>> \/ (x.e + MantissaBits > -1022 /\ ~Overflows(x))

\* A mutant of Discounted: the amount is compounded instead of discounted.
Compounded(amount, factor) == FlMul(amount, factor)

\* lines 63 and 67: amount / (1 + rate) ** exponent
Discounted(amount, factor) == FlDiv(amount, factor)

\* lines 55-67: npv and dnpv after the flows from the i-th on have been
\* added, pow being the table of the powers of 1 + rate
RECURSIVE Accumulate(_, _, _, _, _)
Accumulate(flows, i, pow, npv, dnpv) ==
    IF i > Len(flows) THEN [npv |-> npv, dnpv |-> dnpv]
    ELSE LET years  == Years(flows[i].days)
             k      == FloatToInt(years)
             amount == flows[i].amount
         IN Accumulate(flows, i + 1, pow,
                FlAdd(npv, Discounted(amount, pow[k + 1])),
                FlAdd(dnpv, Discounted(FlMul(FlNeg(years), amount), pow[k + 2])))

\* whether a pow() of the loop body overflows: the largest power is among
\* those the body asks for, and 1 + rate > 1 whenever a power is that large
Raises(pow) == \E j \in 1..Len(pow) : Overflows(pow[j])

\* line 77: new_rate = rate - npv / dnpv
NewtonStep(r, npv, dnpv) == FlSub(r, FlDiv(npv, dnpv))

\* A mutant of Clamped: the step is not bounded below.
Unclamped(new_rate) == new_rate

\* lines 80-81: if new_rate <= -0.99: new_rate = -0.99
Clamped(new_rate) == IF FlLe(new_rate, RateFloor) THEN RateFloor ELSE new_rate

\* line 70: abs(npv) < tolerance
Converged(npv) == FlLt(FlAbs(npv), tolerance)

\* One iteration of the for loop at rate r, pow being what pow() returned:
\* the call's result if the iteration ends it, the next rate otherwise.
Iterate(flows, r, pow) ==
    IF Raises(pow) THEN [result |-> OverflowError, rate |-> r]
    ELSE LET v == Accumulate(flows, 1, pow, FlInt(0), FlInt(0))
         IN IF Converged(v.npv) THEN [result |-> Returned(r), rate |-> r]
            ELSE IF FlIsZero(v.dnpv) THEN [result |-> None, rate |-> r]
            ELSE [result |-> Pending,
                  rate   |-> Clamped(NewtonStep(r, v.npv, v.dnpv))]

XirrIdle ==
    /\ cash_flows = <<>>
    /\ normalized_flows = <<>>
    /\ rate = FlInt(0)
    /\ iteration = 0
    /\ xirr_result = Pending

-----------------------------------------------------------------------------
(* The aggregators (utils/net_worth.py).  all_assets maps each asset type   *)
(* to the rows the routes of app.py load for it.  A row is a record of the  *)
(* columns of its table: amounts are floats, dates are day numbers, a date  *)
(* column holding None is the empty tuple and one holding d is <<d>>.       *)

\* the exception classes a call can leave through; "none" when it returned
NoException == "none"

AttributeError == "AttributeError"

\* sum(...) of floats: 0 + s[1] + s[2] + ..., left to right
RECURSIVE FlSum(_)
FlSum(s) ==
    IF s = <<>> THEN FlInt(0)
    ELSE FlAdd(FlSum(SubSeq(s, 1, Len(s) - 1)), s[Len(s)])

\* sum(h['invested_amount'] for h in holdings.values() if h['quantity'] > 0)
RECURSIVE InvestedInOpen(_)
InvestedInOpen(h) ==
    IF h = <<>> THEN 0
    ELSE (IF Head(h).quantity > 0 THEN Head(h).invested_amount ELSE 0)
         + InvestedInOpen(Tail(h))

\* "x > 0", and "x and x > 0", for a float
Positive(x) == ~FlIsZero(x) /\ ~x.neg

\* A row handed to calculate_mf_holdings is a record of its attributes.  A
\* row of mutual_fund_transactions (app.py:187-198) has scheme_code and
\* scheme_name and no scheme_id; an object that also has scheme_id holds
\* None there, written <<>>, or an id, written <<id>>.  Ids and codes are
\* strings of the model that never coincide, as an int and a str never do.
HasSchemeId(t) == "scheme_id" \in DOMAIN t

\* line 34: f"unknown_{transaction.scheme_name}"
UnknownKey(scheme_name) ==
    CASE scheme_name = "Fund"  -> "unknown_Fund"
      [] scheme_name = "Other" -> "unknown_Other"

\* lines 32-34: scheme_id if it is truthy, else scheme_code, else unknown_...
MfKey(t) ==
    IF t.scheme_id # <<>> THEN t.scheme_id[1]
    ELSE IF t.scheme_code # "" THEN t.scheme_code
    ELSE UnknownKey(t.scheme_name)

\* lines 38-46: the holding of a key seen for the first time
NewHolding(key, t) ==
    [key             |-> key,
     scheme_id       |-> t.scheme_id,
     scheme_code     |-> t.scheme_code,
     scheme_name     |-> t.scheme_name,
     units           |-> FlInt(0),
     invested_amount |-> FlInt(0),
     realized_pnl    |-> FlInt(0),
     lots            |-> <<>>]

\* lines 59-64: the lot of a BUY
MfLot(t) ==
    [units |-> t.units, nav |-> t.nav, amount |-> t.amount,
     date |-> t.transaction_date]

\* lines 53-64: the holding after the BUY branch
MfBuy(h, t) ==
    [h EXCEPT !.units = FlAdd(@, t.units),
              !.invested_amount = FlAdd(@, t.amount),
              !.lots = Append(@, MfLot(t))]

\* line 81: (units_to_sell / lot['units']) * lot['amount']
PartialCostBasis(units_to_sell, lot) ==
    FlMul(FlDiv(units_to_sell, lot.units), lot.amount)

\* A mutant of MfSellLoop: a lot consumed whole stays in the queue with no
\* units and no amount.
RECURSIVE MfSellLoopKeepsLot(_, _, _)
MfSellLoopKeepsLot(lots, units_to_sell, total_cost_basis) ==
    IF Positive(units_to_sell) /\ lots # <<>>
    THEN LET lot == Head(lots)
         IN IF FlLe(lot.units, units_to_sell)
            THEN LET r == MfSellLoopKeepsLot(Tail(lots),
                                             FlSub(units_to_sell, lot.units),
                                             FlAdd(total_cost_basis, lot.amount))
                 IN [r EXCEPT !.lots = <<[lot EXCEPT !.units = FlInt(0),
                                                     !.amount = FlInt(0)]>> \o @]
            ELSE [lots |-> <<[lot EXCEPT
                                !.units = FlSub(@, units_to_sell),
                                !.amount = FlSub(@, PartialCostBasis(units_to_sell, lot))]>>
                           \o Tail(lots),
                  units_to_sell |-> FlInt(0),
                  total_cost_basis |->
                      FlAdd(total_cost_basis, PartialCostBasis(units_to_sell, lot))]
    ELSE [lots |-> lots, units_to_sell |-> units_to_sell,
          total_cost_basis |-> total_cost_basis]

\* lines 71-87: the while loop of a SELL, lots consumed from the head
RECURSIVE MfSellLoop(_, _, _)
MfSellLoop(lots, units_to_sell, total_cost_basis) ==
    IF Positive(units_to_sell) /\ lots # <<>>
    THEN LET lot == Head(lots)
         IN IF FlLe(lot.units, units_to_sell)
            THEN MfSellLoop(Tail(lots),
                            FlSub(units_to_sell, lot.units),
                            FlAdd(total_cost_basis, lot.amount))
            ELSE [lots |-> <<[lot EXCEPT
                                !.units = FlSub(@, units_to_sell),
                                !.amount = FlSub(@, PartialCostBasis(units_to_sell, lot))]>>
                           \o Tail(lots),
                  units_to_sell |-> FlInt(0),
                  total_cost_basis |->
                      FlAdd(total_cost_basis, PartialCostBasis(units_to_sell, lot))]
    ELSE [lots |-> lots, units_to_sell |-> units_to_sell,
          total_cost_basis |-> total_cost_basis]

\* lines 66-96: the holding after the SELL branch
MfSell(h, t) ==
    LET r == MfSellLoop(h.lots, t.units, FlInt(0))
    IN [h EXCEPT !.lots = r.lots,
                 !.units = FlSub(@, t.units),
                 !.invested_amount = FlSub(@, r.total_cost_basis),
                 !.realized_pnl = FlAdd(@, FlSub(t.amount, r.total_cost_basis))]

\* the index of the holding of a key in the dict, 0 if it has none
RECURSIVE HoldingIndexFrom(_, _, _)
HoldingIndexFrom(hs, key, i) ==
    IF i > Len(hs) THEN 0
    ELSE IF hs[i].key = key THEN i
    ELSE HoldingIndexFrom(hs, key, i + 1)

\* A mutant of MfProcessOne: a type other than BUY is treated as a sale.
MfProcessOneSwitchSells(hs, t) ==
    LET key == MfKey(t)
        at  == HoldingIndexFrom(hs, key, 1)
        hs1 == IF at = 0 THEN Append(hs, NewHolding(key, t)) ELSE hs
        k   == IF at = 0 THEN Len(hs1) ELSE at
        h   == [hs1[k] EXCEPT !.scheme_name = t.scheme_name]
    IN [hs1 EXCEPT ![k] = IF t.transaction_type = "BUY" THEN MfBuy(h, t)
                          ELSE MfSell(h, t)]

\* lines 30-101: one iteration of "for transaction in sorted_transactions"
\* on a row that has scheme_id; SWITCH and any other type change the name only
MfProcessOne(hs, t) ==
    LET key == MfKey(t)
        at  == HoldingIndexFrom(hs, key, 1)
        hs1 == IF at = 0 THEN Append(hs, NewHolding(key, t)) ELSE hs
        k   == IF at = 0 THEN Len(hs1) ELSE at
        h   == [hs1[k] EXCEPT !.scheme_name = t.scheme_name]
    IN [hs1 EXCEPT ![k] = IF t.transaction_type = "BUY" THEN MfBuy(h, t)
                          ELSE IF t.transaction_type = "SELL" THEN MfSell(h, t)
                          ELSE h]

\* the for loop over a sorted list of rows that have scheme_id
RECURSIVE MfProcessAll(_, _)
MfProcessAll(hs, rows) ==
    IF rows = <<>> THEN hs
    ELSE MfProcessAll(MfProcessOne(hs, Head(rows)), Tail(rows))

\* The exception calculate_mf_holdings leaves through if any.  An empty list
\* returns {} at lines 22-23.  Line 32 reads transaction.scheme_id: on a row
\* of the table, which has no such column, the read raises AttributeError and
\* nothing is returned.
MfRaised(rows) ==
    IF rows # <<>> /\ \E i \in 1..Len(rows) : ~HasSchemeId(rows[i])
    THEN AttributeError
    ELSE NoException

\* calculate_mf_holdings: the exception it leaves through if any, and the
\* dict it returns, in insertion order
calculate_mf_holdings(rows) ==
    [raised   |-> MfRaised(rows),
     holdings |-> IF rows = <<>> \/ MfRaised(rows) # NoException THEN <<>>
                  ELSE MfProcessAll(<<>>, sorted(rows))]

NetWorthKeys ==
    {"stocks", "mutual_funds", "fixed_deposits", "epf", "nps", "savings",
     "lending", "other", "total"}

\* the dict of lines 30-40
ZeroNetWorth == [k \in NetWorthKeys |-> FlInt(0)]

\* a column of some rows, as a list
Column(rows, field) == [i \in 1..Len(rows) |-> rows[i][field]]

\* "... if fd.status == 'active'", "... if rec.status == 'active'"
Active(rows) == SelectSeq(rows, LAMBDA r : r.status = "active")

\* line 72: inv.current_value or inv.purchase_value
ValueOrPurchase(inv) ==
    IF FlIsZero(inv.current_value) THEN inv.purchase_value ELSE inv.current_value

\* sum(row.field for row in rows)
ColumnSum(rows, field) == FlSum(Column(rows, field))

\* the rows a figure is summed over, and the column summed
FigureRows(assets, k) ==
    IF k \in {"fixed_deposits", "lending"} THEN Active(assets[k]) ELSE assets[k]

FigureColumn(k) ==
    CASE k = "fixed_deposits" -> "principal_amount"
      [] k = "epf"            -> "current_balance"
      [] k = "nps"            -> "current_value"
      [] k = "savings"        -> "current_balance"
      [] k = "lending"        -> "outstanding_amount"

\* the rows of other_investments, each with the value line 72 counts
Valued(rows) == [i \in 1..Len(rows) |-> [value |-> ValueOrPurchase(rows[i])]]

\* Lines 42-71: the eight figures before rounding, 'total' still 0.  The
\* mutual-fund figure is only computed for an empty list, whose holdings are
\* {}; "rec.outstanding_amount or 0" is the amount itself.
Figures(assets, now) ==
    [k \in NetWorthKeys |->
        CASE k = "stocks" ->
               FlInt(InvestedInOpen(calculate_holdings(assets.stocks, now)))
          [] k \in {"mutual_funds", "total"} -> FlInt(0)
          [] k = "other" -> ColumnSum(Valued(assets.other), "value")
          [] OTHER -> ColumnSum(FigureRows(assets, k), FigureColumn(k))]

\* the values of the dict, in the order of its keys
FigureList(f) ==
    <<f.stocks, f.mutual_funds, f.fixed_deposits, f.epf, f.nps, f.savings,
      f.lending, f.other, f.total>>

\* line 75: sum(net_worth.values()) - net_worth['total'], 'total' being 0
TotalOf(f) == FlSub(FlSum(FigureList(f)), f.total)

\* lines 75-79: the total, then every value rounded to two places
Rounded(f, total) ==
    [k \in NetWorthKeys |-> FlRound2(IF k = "total" THEN total ELSE f[k])]

\* What calculate_total_net_worth does once calculate_mf_holdings has ended:
\* its exception leaves the function, otherwise the dict is returned.
NetWorthAfter(exception, f) ==
    IF exception # NoException
    THEN [raised |-> exception, value |-> ZeroNetWorth]
    ELSE [raised |-> NoException, value |-> Rounded(f, TotalOf(f))]

\* calculate_total_net_worth: the exception it leaves through, or the dict
\* of line 81
calculate_total_net_worth(assets, now) ==
    NetWorthAfter(MfRaised(assets.mutual_funds),
                  Figures(assets, now))

\* A cash flow (date, amount) of the aggregator.  transaction_date is a
\* DateTime column and start_date, maturity_date and opening_date are Date
\* columns: "x if isinstance(x, date) else x.date()" leaves a datetime as it
\* is, datetime being a subclass of date.  is_datetime tells the two apart.
Flow(d, a, is_datetime) ==
    [date |-> d, amount |-> a, is_datetime |-> is_datetime]

\* xirr.py:27-31: the flows as xirr sorts them, datetimes turned into dates
AsDates(flows) ==
    [i \in 1..Len(flows) |-> [date |-> flows[i].date, amount |-> flows[i].amount]]

\* the rows of a for loop that reach its append: BUY and SELL, others "continue"
Trades(rows) == SelectSeq(rows, LAMBDA t : t.transaction_type \in {"BUY", "SELL"})

\* lines 313-316: -(quantity * price) for a BUY, quantity * price for a SELL
StockAmount(txn) ==
    IF txn.transaction_type = "BUY" THEN FlInt(0 - txn.quantity * txn.price)
    ELSE FlInt(txn.quantity * txn.price)

\* lines 338-341: -amount for a BUY, amount for a SELL
MfAmount(txn) ==
    IF txn.transaction_type = "BUY" THEN FlNeg(txn.amount) ELSE txn.amount

\* What one section of calculate_unified_portfolio_xirr collects: the
\* exception it leaves through if any, the type's own flows, and the flows it
\* appends to all_cash_flows.
Collected(exception, own, shared) ==
    [raised |-> exception, own |-> own, shared |-> shared]

\* a section that appends each of its flows to both lists
Both(flows) == Collected(NoException, flows, flows)

\* lines 323-328: "if current_stock_value > 0", the closing inflow
Closing(current_stock_value, now) ==
    IF current_stock_value > 0
    THEN <<Flow(now, FlInt(current_stock_value), FALSE)>> ELSE <<>>

\* lines 311-320: the flows of the for loop over the stock transactions
StockFlows(trades) ==
    [i \in 1..Len(trades) |->
        Flow(trades[i].transaction_date, StockAmount(trades[i]), TRUE)]

\* lines 336-345: the flows of the for loop over the mutual-fund transactions
MfFlows(trades) ==
    [i \in 1..Len(trades) |->
        Flow(trades[i].transaction_date, MfAmount(trades[i]), TRUE)]

\* lines 309-328: the stock transactions, then the cost of the open positions
StockSection(assets, now) ==
    Both(StockFlows(Trades(assets.stocks))
         \o Closing(InvestedInOpen(calculate_holdings(assets.stocks, now)), now))

\* lines 334-352: the mutual-fund transactions; the value of the holdings is
\* appended to mf_flows only, and is 0 for the one list that does not raise
MfSection(assets, now) ==
    [Both(MfFlows(Trades(assets.mutual_funds)))
        EXCEPT !.raised = MfRaised(assets.mutual_funds)]

\* lines 365-372: whether the deposit's maturity is among the flows, and where
Matures(fd) == fd.status = "active" /\ ~FlIsZero(fd.maturity_amount)

\* lines 360-372, for one deposit: what goes to fd_flows
FdOwn(fd, now) ==
    <<Flow(fd.start_date, FlNeg(fd.principal_amount), FALSE)>>
    \o (IF ~Matures(fd) THEN <<>>
        ELSE IF fd.maturity_date >= now THEN <<Flow(now, fd.principal_amount, FALSE)>>
        ELSE <<Flow(fd.maturity_date, fd.maturity_amount, FALSE)>>)

\* lines 360-372, for one deposit: what goes to all_cash_flows
FdShared(fd, now) ==
    <<Flow(fd.start_date, FlNeg(fd.principal_amount), FALSE)>>
    \o (IF Matures(fd) /\ fd.maturity_date < now
        THEN <<Flow(fd.maturity_date, fd.maturity_amount, FALSE)>> ELSE <<>>)

\* the lists of a loop's iterations, one after the other
RECURSIVE Flatten(_)
Flatten(lists) ==
    IF lists = <<>> THEN <<>> ELSE Head(lists) \o Flatten(Tail(lists))

FdSection(assets, now) ==
    LET fds == assets.fixed_deposits
    IN Collected(NoException,
                 Flatten([i \in 1..Len(fds) |-> FdOwn(fds[i], now)]),
                 Flatten([i \in 1..Len(fds) |-> FdShared(fds[i], now)]))

\* datetime(2020, 1, 1).date(), as a day number
DefaultOpeningDate == 1095

\* lines 384-388, for one account: the opening balance, as an outflow
EpfOpening(acc) ==
    IF Positive(acc.opening_balance)
    THEN <<Flow(IF acc.opening_date # <<>> THEN acc.opening_date[1]
                ELSE DefaultOpeningDate,
                FlNeg(acc.opening_balance), FALSE)>>
    ELSE <<>>

\* lines 391-392, for one account: the current balance, to epf_flows only
EpfCurrent(acc, now) ==
    IF Positive(acc.current_balance)
    THEN <<Flow(now, acc.current_balance, FALSE)>> ELSE <<>>

EpfSection(assets, now) ==
    LET accs == assets.epf
    IN Collected(NoException,
                 Flatten([i \in 1..Len(accs) |->
                             EpfOpening(accs[i]) \o EpfCurrent(accs[i], now)]),
                 Flatten([i \in 1..Len(accs) |-> EpfOpening(accs[i])]))

\* lines 398-412 on rows of NPSAccount.  Line 402 reads acc.opening_balance of
\* the first account, and the table has no such column (app.py:312-320 has
\* current_value, units and nav): the read raises AttributeError.
NpsSection(assets, now) ==
    Collected(IF assets.nps = <<>> THEN NoException ELSE AttributeError,
              <<>>, <<>>)

AssetTypes == {"stocks", "mutual_funds", "fixed_deposits", "epf", "nps"}

Section(t, assets, now) ==
    CASE t = "stocks"         -> StockSection(assets, now)
      [] t = "mutual_funds"   -> MfSection(assets, now)
      [] t = "fixed_deposits" -> FdSection(assets, now)
      [] t = "epf"            -> EpfSection(assets, now)
      [] t = "nps"            -> NpsSection(assets, now)

\* the section that follows the one of t; the return follows the overall one
After(t) ==
    CASE t = "stocks"         -> "mutual_funds"
      [] t = "mutual_funds"   -> "fixed_deposits"
      [] t = "fixed_deposits" -> "epf"
      [] t = "epf"            -> "nps"
      [] t = "nps"            -> "overall"
      [] t = "overall"        -> "unified_done"

\* line 424: [(d, a) for d, a in all_cash_flows if d != today], today being a
\* date: a datetime never equals a date, whatever its day
NotToday(flows, now) ==
    SelectSeq(flows, LAMBDA f : f.is_datetime \/ f.date # now)

\* lines 424-428: the stream of the overall XIRR, total being net_worth['total']
OverallStream(flows, total, now) ==
    NotToday(flows, now)
    \o (IF Positive(total) THEN <<Flow(now, total, FALSE)>> ELSE <<>>)

\* an entry of xirr_by_type, or 'overall_xirr': not assigned yet, None, or a
\* percentage
Unset == [kind |-> "unset", value |-> FlInt(0)]

NoneEntry == [kind |-> "None", value |-> FlInt(0)]

Percent(x) == [kind |-> "percent", value |-> x]

\* "round(x * 100, 2) if x else None", x being what xirr returned or the None
\* of "if len(flows) >= 2 else None": a rate of 0.0 is falsy
Reported(result) ==
    IF result.kind = "rate" /\ ~FlIsZero(result.rate)
    THEN Percent(FlRound2(FlMul(result.rate, FlInt(100))))
    ELSE NoneEntry

\* the dict get_asset_allocation returns
Allocation(equity, debt, cash, alternative, total_value) ==
    [equity |-> equity, debt |-> debt, cash |-> cash,
     alternative |-> alternative, total_value |-> total_value]

\* lines 151-157: no positive total, every entry is 0
NoAllocation == Allocation(FlInt(0), FlInt(0), FlInt(0), FlInt(0), FlInt(0))

\* lines 110-111 and 124-125: the assumed shares, 0.6 and 0.4 of the mutual
\* funds, 0.5 and 0.5 of the NPS value
MfEquityShare == FlRatio(6, 10)
MfDebtShare == FlRatio(4, 10)
NpsShare == FlRatio(1, 2)

\* Lines 94-137: the four amounts before the percentages, f being the
\* per-type sums (which lines 102-137 compute as lines 44-72 do) and
\* mf_value the cost of the open mutual-fund positions.  Each bucket starts
\* at 0 and is added to in the order of the lines.
Buckets(f, mf_value) ==
    [equity      |-> FlAdd(FlAdd(f.stocks, FlMul(mf_value, MfEquityShare)),
                           FlMul(f.nps, NpsShare)),
     debt        |-> FlAdd(FlAdd(FlAdd(FlMul(mf_value, MfDebtShare),
                                       f.fixed_deposits), f.epf),
                           FlMul(f.nps, NpsShare)),
     cash        |-> f.savings,
     alternative |-> FlAdd(f.lending, f.other)]

\* line 140: sum(allocation.values())
BucketTotal(b) == FlSum(<<b.equity, b.debt, b.cash, b.alternative>>)

\* round((amount / total) * 100, 2)
Share(amount, total) == FlRound2(FlMul(FlDiv(amount, total), FlInt(100)))

\* lines 142-157
Shares(b, total) ==
    IF Positive(total)
    THEN Allocation(Share(b.equity, total), Share(b.debt, total),
                    Share(b.cash, total), Share(b.alternative, total),
                    FlRound2(total))
    ELSE NoAllocation

\* What get_asset_allocation does once calculate_mf_holdings has ended: its
\* exception leaves the function, otherwise the dict is returned.
AllocationAfter(exception, b) ==
    IF exception # NoException
    THEN [raised |-> exception, value |-> NoAllocation]
    ELSE [raised |-> NoException, value |-> Shares(b, BucketTotal(b))]

\* get_asset_allocation, lines 84-157: the mutual-fund figure is only
\* computed for an empty list, whose holdings are {}
get_asset_allocation(assets, now) ==
    AllocationAfter(MfRaised(assets.mutual_funds),
                    Buckets(Figures(assets, now), FlInt(0)))

EmptyAssets ==
    [stocks |-> <<>>, mutual_funds |-> <<>>, fixed_deposits |-> <<>>,
     epf |-> <<>>, nps |-> <<>>, savings |-> <<>>, lending |-> <<>>,
     other |-> <<>>]

PortfolioIdle ==
    /\ all_assets = EmptyAssets
    /\ net_worth = ZeroNetWorth
    /\ type_flows = [t \in AssetTypes |-> <<>>]
    /\ all_cash_flows = <<>>
    /\ all_cash_flows_filtered = <<>>
    /\ xirr_by_type = [t \in AssetTypes |-> Unset]
    /\ overall_xirr = Unset
    /\ solving = "none"
    /\ raised = NoException
    /\ allocation = NoAllocation

-----------------------------------------------------------------------------
(* parse_zone (utils/zones.py).  The argument is a string or None; a       *)
(* number is the float that float() builds from the text.                  *)

MaxZoneLen == 5

\* the characters of the zone strings: digits, the point, the hyphen, a
\* blank and a letter
Digits == {"0", "2", "5"}
ZoneChars == Digits \cup {".", "-", " ", "a"}

DigitValue(c) == CASE c = "0" -> 0 [] c = "2" -> 2 [] c = "5" -> 5

\* the argument: None, or a str
NoneStr == [given |-> FALSE, text |-> <<>>]
Str(text) == [given |-> TRUE, text |-> text]

\* str.strip(): blanks off both ends
RECURSIVE StrStrip(_)
StrStrip(s) ==
    IF s = <<>> THEN s
    ELSE IF Head(s) = " " THEN StrStrip(Tail(s))
    ELSE IF s[Len(s)] = " " THEN StrStrip(SubSeq(s, 1, Len(s) - 1))
    ELSE s

\* '-' in s
HasHyphen(s) == \E i \in 1..Len(s) : s[i] = "-"

\* the index of the first c in s, 0 if there is none
RECURSIVE IndexFrom(_, _, _)
IndexFrom(s, c, i) ==
    IF i > Len(s) THEN 0 ELSE IF s[i] = c THEN i ELSE IndexFrom(s, c, i + 1)

\* str.split(sep): the list of the texts between the separators, all of them
RECURSIVE StrSplit(_, _)
StrSplit(s, sep) ==
    LET i == IndexFrom(s, sep, 1)
    IN IF i = 0 THEN <<s>>
       ELSE <<SubSeq(s, 1, i - 1)>> \o StrSplit(SubSeq(s, i + 1, Len(s)), sep)

\* the integer a string of digits writes
RECURSIVE IntOf(_)
IntOf(s) ==
    IF s = <<>> THEN 0
    ELSE 10 * IntOf(SubSeq(s, 1, Len(s) - 1)) + DigitValue(s[Len(s)])

RECURSIVE Pow10(_)
Pow10(k) == IF k = 0 THEN 1 ELSE 10 * Pow10(k - 1)

ValueError == "ValueError"

\* float(text) on the characters above: blanks are stripped, then the text
\* must be digits with at most one point and at least one digit; anything
\* else raises ValueError.  The value is the float nearest to the decimal.
float(text) ==
    LET t      == StrStrip(text)
        point  == IndexFrom(t, ".", 1)
        whole  == IF point = 0 THEN t ELSE SubSeq(t, 1, point - 1)
        frac   == IF point = 0 THEN <<>> ELSE SubSeq(t, point + 1, Len(t))
        digits == whole \o frac
    IN IF digits # <<>> /\ \A i \in 1..Len(digits) : digits[i] \in Digits
       THEN [raised |-> NoException,
             value  |-> FlRatio(IntOf(digits), Pow10(Len(frac)))]
       ELSE [raised |-> ValueError, value |-> FlInt(0)]

\* an element of the returned pair: None, or a float
NoneValue == [kind |-> "None", value |-> FlInt(0)]
Float(x) == [kind |-> "float", value |-> x]

\* how a call of parse_zone ends: the exception it leaves through if any, and
\* the pair it returns
ZoneReturn(min_val, max_val) ==
    [raised |-> NoException, min |-> min_val, max |-> max_val]
ZoneRaise(exception) ==
    [raised |-> exception, min |-> NoneValue, max |-> NoneValue]
NonePair == ZoneReturn(NoneValue, NoneValue)

\* A mutant of Try: no except clause, the exception of a conversion leaves
\* the function.
TryWithoutExcept(first, second, caught) ==
    IF first.raised # NoException THEN ZoneRaise(first.raised)
    ELSE IF second.raised # NoException THEN ZoneRaise(second.raised)
    ELSE ZoneReturn(Float(first.value), Float(second.value))

\* a try block around conversions: the pair if none raised, (None, None) if
\* the first that raised is among the exceptions caught, the exception
\* otherwise
Try(first, second, caught) ==
    IF first.raised # NoException
    THEN (IF first.raised \in caught THEN NonePair ELSE ZoneRaise(first.raised))
    ELSE IF second.raised # NoException
    THEN (IF second.raised \in caught THEN NonePair ELSE ZoneRaise(second.raised))
    ELSE ZoneReturn(Float(first.value), Float(second.value))

\* parse_zone, lines 22-38
parse_zone(zone) ==
    IF ~zone.given \/ zone.text = <<>> THEN NonePair
    ELSE LET stripped == StrStrip(zone.text)
             parts    == StrSplit(stripped, "-")
         IN IF HasHyphen(stripped)
            THEN Try(float(parts[1]), float(parts[2]), {ValueError, "IndexError"})
            ELSE Try(float(stripped), float(stripped), {ValueError})

ZonePending == [raised |-> "pending", min |-> NoneValue, max |-> NoneValue]

ZoneIdle ==
    /\ zone_str = NoneStr
    /\ zone_result = ZonePending

MfIdle ==
    /\ mf_transactions = <<>>
    /\ mf_sorted = <<>>
    /\ mf_idx = 0
    /\ mf_holdings = <<>>
    /\ mf_raised = NoException
    /\ mf_xirr = Unset

-----------------------------------------------------------------------------
(* Inputs                                                                  *)

\* the unit price of the day: one market price per date
PriceOn(d) == CASE d = 50 -> 100 [] d = 100 -> 200 [] OTHER -> 150

NameOf(sym) == SubSeq(sym, 1, 3)

TransactionsOf(symbols, quantities, dates) ==
    { [stock_symbol     |-> sym,
       stock_name       |-> NameOf(sym),
       transaction_type |-> ty,
       quantity         |-> q,
       price            |-> PriceOn(d),
       transaction_date |-> d] :
      sym \in symbols, ty \in {"BUY", "SELL"}, q \in quantities, d \in dates }

ListsOf(S) == UNION { [1..n -> S] : n \in 0..MaxTxns }

-----------------------------------------------------------------------------
(* calculate_holdings as a state machine                                   *)

LedgerInit(lists) ==
    /\ transactions \in lists
    /\ today \in Todays
    /\ pc = "start"
    /\ sorted_transactions = <<>>
    /\ idx = 0
    /\ holdings = <<>>
    /\ oversold = <<>>
    /\ symbol_in = <<>>
    /\ symbol_out = <<>>
    /\ calls = <<>>
    /\ XirrIdle
    /\ PortfolioIdle
    /\ ZoneIdle
    /\ MfIdle

\* lines 58-62: holdings = {}, sorted_transactions = sorted(...)
Sort ==
    /\ pc = "start"
    /\ sorted_transactions' = sorted(transactions)
    /\ holdings' = <<>>
    /\ oversold' = <<>>
    /\ idx' = 1
    /\ pc' = "loop"
    /\ UNCHANGED <<transactions, today, outsideLedger>>

\* lines 64-125: one iteration of the for loop
ProcessTransaction ==
    /\ pc = "loop"
    /\ idx <= Len(sorted_transactions)
    /\ LET txn == sorted_transactions[idx]
           k   == BucketOf(holdings, txn)
           old == IF k <= Len(oversold) THEN oversold[k] ELSE 0
           u   == IF k <= Len(holdings) THEN Unmatched(holdings[k], txn)
                  ELSE Unmatched(NewBucket(txn.stock_symbol, txn), txn)
       IN /\ holdings' = ProcessOne(holdings, txn)
          /\ oversold' = IF k <= Len(oversold)
                         THEN [oversold EXCEPT ![k] = old + u]
                         ELSE Append(oversold, u)
    /\ idx' = idx + 1
    /\ UNCHANGED <<transactions, today, pc, sorted_transactions, outsideLedger>>

\* lines 127-134: the closing loop and the return
Finalize ==
    /\ pc = "loop"
    /\ idx > Len(sorted_transactions)
    /\ holdings' = FinalHoldings(holdings, today)
    /\ pc' = "done"
    /\ UNCHANGED <<transactions, today, sorted_transactions, idx, oversold, outsideLedger>>

Init == LedgerInit(ListsOf(TransactionsOf(Symbols, Quantities, Dates)))

Next == Sort \/ ProcessTransaction \/ Finalize

Spec == Init /\ [][Next]_vars

\* the same program on histories that name one instrument in several forms
InitSymbols == LedgerInit(ListsOf(TransactionsOf(SymbolForms, OneQuantity, TwoDates)))

SpecSymbols == InitSymbols /\ [][Next]_vars

-----------------------------------------------------------------------------
(* normalize_symbol as a state machine: one call on one string             *)

SymbolStrings == UNION { [1..n -> Chars] : n \in 0..MaxSymLen }

InitNormalize ==
    /\ symbol_in \in SymbolStrings
    /\ symbol_out = <<>>
    /\ pc = "normalize"
    /\ transactions = <<>>
    /\ today \in Todays
    /\ sorted_transactions = <<>>
    /\ idx = 0
    /\ holdings = <<>>
    /\ oversold = <<>>
    /\ calls = <<>>
    /\ XirrIdle
    /\ PortfolioIdle
    /\ ZoneIdle
    /\ MfIdle

NormalizeSymbol ==
    /\ pc = "normalize"
    /\ symbol_out' = normalize_symbol(symbol_in)
    /\ pc' = "normalized"
    /\ UNCHANGED <<symbol_in, outsideSymbol>>

NextNormalize == NormalizeSymbol

SpecNormalize == InitNormalize /\ [][NextNormalize]_vars

-----------------------------------------------------------------------------
(* Concurrent calls of calculate_holdings.  Every call has its own frame:   *)
(* the argument, the locals of lines 58-62 and the returned dict.  A step   *)
(* of a call is one of its three actions; steps of different calls          *)
(* interleave freely.                                                       *)

CallIds == {1, 2}
MaxCallTxns == 2

CallTransactions == TransactionsOf({ABC}, OneQuantity, TwoDates)

CallLists == UNION { [1..n -> CallTransactions] : n \in 0..MaxCallTxns }

\* the frame of a call that was just entered with the argument txns
Frame(txns) ==
    [transactions        |-> txns,
     pc                  |-> "start",
     sorted_transactions |-> <<>>,
     idx                 |-> 0,
     holdings            |-> <<>>,
     result              |-> <<>>]

\* A mutant of holdings_owner: one dict, at module level, serves every call.
holdings_shared(c) == 1

\* line 58: "holdings = {}" binds a local, so a call works on the dict of its own frame
holdings_owner(c) == c

InitCalls ==
    /\ calls \in [CallIds -> { Frame(l) : l \in CallLists }]
    /\ today \in Todays
    /\ pc = "calls"
    /\ transactions = <<>>
    /\ sorted_transactions = <<>>
    /\ idx = 0
    /\ holdings = <<>>
    /\ oversold = <<>>
    /\ symbol_in = <<>>
    /\ symbol_out = <<>>
    /\ XirrIdle
    /\ PortfolioIdle
    /\ ZoneIdle
    /\ MfIdle

\* A mutant of CallSort: list.sort() on the argument instead of sorted().
CallSortInPlace(c) ==
    /\ calls[c].pc = "start"
    /\ calls' = [calls EXCEPT
                   ![c].transactions = sorted(calls[c].transactions),
                   ![c].sorted_transactions = sorted(calls[c].transactions),
                   ![c].idx = 1,
                   ![c].pc = "loop",
                   ![holdings_owner(c)].holdings = <<>>]
    /\ UNCHANGED outsideCalls

\* lines 58-62 of call c
CallSort(c) ==
    /\ calls[c].pc = "start"
    /\ calls' = [calls EXCEPT
                   ![c].sorted_transactions = sorted(calls[c].transactions),
                   ![c].idx = 1,
                   ![c].pc = "loop",
                   ![holdings_owner(c)].holdings = <<>>]
    /\ UNCHANGED outsideCalls

\* lines 64-125 of call c: one iteration of the for loop
CallProcessTransaction(c) ==
    /\ calls[c].pc = "loop"
    /\ calls[c].idx <= Len(calls[c].sorted_transactions)
    /\ LET o   == holdings_owner(c)
           txn == calls[c].sorted_transactions[calls[c].idx]
       IN calls' = [calls EXCEPT
                      ![c].idx = @ + 1,
                      ![o].holdings = ProcessOne(calls[o].holdings, txn)]
    /\ UNCHANGED outsideCalls

\* lines 127-134 of call c: the closing loop and the return
CallFinalize(c) ==
    /\ calls[c].pc = "loop"
    /\ calls[c].idx > Len(calls[c].sorted_transactions)
    /\ LET o == holdings_owner(c)
       IN calls' = [calls EXCEPT
                      ![c].pc = "done",
                      ![c].result = FinalHoldings(calls[o].holdings, today)]
    /\ UNCHANGED outsideCalls

NextCalls ==
    \E c \in CallIds : CallSort(c) \/ CallProcessTransaction(c) \/ CallFinalize(c)

SpecCalls == InitCalls /\ [][NextCalls]_vars

-----------------------------------------------------------------------------
(* xirr as a state machine: one call with the default guess                *)

MaxFlows == 2

FlowDates == {0, 365}

FlowAmounts == {-1000, 1, 1000, 1100}

\* every amount on every date, and one flow of amount zero
CashFlows ==
    { [date |-> d, amount |-> FlInt(a)] : d \in FlowDates, a \in FlowAmounts }
    \cup { [date |-> 365, amount |-> FlInt(0)] }

CashFlowLists == UNION { [1..n -> CashFlows] : n \in 0..MaxFlows }

InitXirr ==
    /\ cash_flows \in CashFlowLists
    /\ normalized_flows = <<>>
    /\ rate = FlInt(0)
    /\ iteration = 0
    /\ xirr_result = Pending
    /\ pc = "xirr"
    /\ transactions = <<>>
    /\ today \in Todays
    /\ sorted_transactions = <<>>
    /\ idx = 0
    /\ holdings = <<>>
    /\ oversold = <<>>
    /\ symbol_in = <<>>
    /\ symbol_out = <<>>
    /\ calls = <<>>
    /\ PortfolioIdle
    /\ ZoneIdle
    /\ MfIdle

\* lines 24-51: the guards, the sort, normalized_flows and rate = guess
XirrEnter ==
    /\ pc = "xirr"
    /\ iteration' = 0
    /\ IF Len(cash_flows) < 2 \/ Cardinality(Signs(SortedFlows(cash_flows))) < 2
       THEN /\ xirr_result' = None
            /\ pc' = "xirr_done"
            /\ UNCHANGED <<normalized_flows, rate>>
       ELSE /\ normalized_flows' = NormalizedFlows(SortedFlows(cash_flows))
            /\ rate' = DefaultGuess
            /\ xirr_result' = Pending
            /\ pc' = "newton"
    /\ UNCHANGED <<cash_flows, outsideXirr>>

\* lines 53-83: one iteration of the for loop
XirrIterate ==
    /\ pc = "newton"
    /\ iteration < max_iterations
    /\ \E pow \in PowerTables(FlAdd(FlInt(1), rate), MaxPower(normalized_flows)) :
       \E step \in {Iterate(normalized_flows, rate, pow)} :
          /\ xirr_result' = step.result
          /\ rate' = step.rate
          /\ IF step.result = Pending
             THEN iteration' = iteration + 1 /\ pc' = pc
             ELSE iteration' = iteration /\ pc' = "xirr_done"
    /\ UNCHANGED <<cash_flows, normalized_flows, outsideXirr>>

\* lines 85-86: range(max_iterations) is used up
XirrExhausted ==
    /\ pc = "newton"
    /\ iteration = max_iterations
    /\ xirr_result' = None
    /\ pc' = "xirr_done"
    /\ UNCHANGED <<cash_flows, normalized_flows, rate, iteration, outsideXirr>>

NextXirr == XirrEnter \/ XirrIterate \/ XirrExhausted

SpecXirr == InitXirr /\ [][NextXirr]_vars

-----------------------------------------------------------------------------
(* The aggregators as a state machine: one call of calculate_total_net_worth *)
(* or of calculate_unified_portfolio_xirr on the rows of one portfolio.  The *)
(* unified XIRR runs the solver above once per asset type and once overall.  *)
(* Day 0 is 2017-01-01; every date lies whole years of 365 days from today.  *)

MaxAssetTypes == 2

PortfolioTodays == {1460}

Trade(type, quantity, price, d) ==
    [stock_symbol     |-> ABC,
     stock_name       |-> NameOf(ABC),
     transaction_type |-> type,
     quantity         |-> quantity,
     price            |-> price,
     transaction_date |-> d]

\* no stock; one bought a year ago; one bought today
StockHistories ==
    { <<>>,
      <<Trade("BUY", 10, 100, 1095)>>,
      <<Trade("BUY", 10, 100, 1460)>> }

\* a stock bought and sold twice over three years, for what was paid in all
RoundTrips ==
    <<Trade("BUY", 3, 200, 0), Trade("SELL", 3, 535, 365),
      Trade("BUY", 3, 500, 730), Trade("SELL", 3, 165, 1095)>>

\* a row of mutual_fund_transactions (app.py:186-198)
MfPurchase ==
    [scheme_code      |-> "119551",
     scheme_name      |-> "Fund",
     transaction_type |-> "BUY",
     units            |-> FlInt(10),
     nav              |-> FlInt(100),
     amount           |-> FlInt(1000),
     transaction_date |-> 1095]

MfHistories == { <<>>, <<MfPurchase>> }

\* a row of fixed_deposits (app.py:228-234)
FixedDeposit(principal, start, maturity, amount, status) ==
    [principal_amount |-> FlInt(principal),
     start_date       |-> start,
     maturity_date    |-> maturity,
     maturity_amount  |-> FlInt(amount),
     status           |-> status]

\* a deposit paid out a year ago and marked 'matured'
PaidOut == FixedDeposit(1000, 730, 1095, 1100, "matured")

\* no deposit; one running; one opened today; one past its maturity date and
\* still 'active'; one paid out
FdLists ==
    { <<>>,
      <<FixedDeposit(1000, 1095, 1825, 1200, "active")>>,
      <<FixedDeposit(1000, 1460, 1825, 1100, "active")>>,
      <<FixedDeposit(1000, 730, 1095, 1100, "active")>>,
      <<PaidOut>> }

\* a row of epf_accounts (app.py:261-263), balances in thousandths
EpfAccount(opening, opening_date, current) ==
    [opening_balance |-> FlRatio(opening, 1000),
     opening_date    |-> opening_date,
     current_balance |-> FlRatio(current, 1000)]

\* no account; one with no opening date; one opened today
EpfLists ==
    { <<>>,
      <<EpfAccount(1000000, <<>>, 1100004)>>,
      <<EpfAccount(1000000, <<1460>>, 1000000)>> }

\* an account that lost nearly all of its balance in a year
Depleted == EpfAccount(1000000, <<1095>>, 1000)

\* a row of nps_accounts (app.py:312-320)
NpsLists ==
    { <<>>,
      <<[current_value |-> FlInt(500), units |-> FlInt(50), nav |-> FlInt(10)]>> }

\* a row of savings_accounts (app.py:372)
SavingsLists == { <<>>, <<[current_balance |-> FlRatio(1000004, 1000)]>> }

\* a row of lending_records (app.py:430-431); the routes load active ones only
LendingLists ==
    { <<>>, <<[outstanding_amount |-> FlInt(200), status |-> "active"]>> }

\* a row of other_investments (app.py:458-459), never revalued
OtherLists ==
    { <<>>, <<[purchase_value |-> FlInt(300), current_value |-> FlInt(0)]>> }

\* savings of 1000.005, 200 lent and something bought for 0.2
SmallChange ==
    [EmptyAssets EXCEPT
        !.savings = <<[current_balance |-> FlRatio(1000005, 1000)]>>,
        !.lending = <<[outstanding_amount |-> FlInt(200), status |-> "active"]>>,
        !.other   = <<[purchase_value |-> FlRatio(2, 10),
                       current_value  |-> FlInt(0)]>>]

\* the asset types of a portfolio that hold rows
Held(assets) == { t \in DOMAIN assets : assets[t] # <<>> }

\* the portfolios of at most MaxAssetTypes asset types, and four more: the
\* round trips alone, the small change, and the depleted account without and
\* with the deposit that was paid out
Portfolios ==
    { assets \in [stocks : StockHistories, mutual_funds : MfHistories,
                  fixed_deposits : FdLists, epf : EpfLists, nps : NpsLists,
                  savings : SavingsLists, lending : LendingLists,
                  other : OtherLists] :
        Cardinality(Held(assets)) <= MaxAssetTypes }
    \cup { [EmptyAssets EXCEPT !.stocks = RoundTrips],
           SmallChange,
           [EmptyAssets EXCEPT !.epf = <<Depleted>>],
           [EmptyAssets EXCEPT !.epf = <<Depleted>>,
                               !.fixed_deposits = <<PaidOut>>] }

InitPortfolio ==
    /\ all_assets \in Portfolios
    /\ today \in PortfolioTodays
    /\ pc = "portfolio"
    /\ net_worth = ZeroNetWorth
    /\ type_flows = [t \in AssetTypes |-> <<>>]
    /\ all_cash_flows = <<>>
    /\ all_cash_flows_filtered = <<>>
    /\ xirr_by_type = [t \in AssetTypes |-> Unset]
    /\ overall_xirr = Unset
    /\ solving = "none"
    /\ raised = NoException
    /\ transactions = <<>>
    /\ sorted_transactions = <<>>
    /\ idx = 0
    /\ holdings = <<>>
    /\ oversold = <<>>
    /\ symbol_in = <<>>
    /\ symbol_out = <<>>
    /\ calls = <<>>
    /\ XirrIdle
    /\ ZoneIdle
    /\ MfIdle
    /\ allocation = NoAllocation

\* calculate_total_net_worth(all_assets), lines 12-81
NetWorth ==
    /\ pc = "portfolio"
    /\ \E r \in {calculate_total_net_worth(all_assets, today)} :
          /\ net_worth' = r.value
          /\ raised' = r.raised
    /\ pc' = "net_worth_done"
    /\ UNCHANGED <<allocation, all_assets, type_flows, all_cash_flows, all_cash_flows_filtered,
                   xirr_by_type, overall_xirr, solving, today, xirrVars,
                   outsidePortfolio>>

\* get_asset_allocation(all_assets), lines 84-157: the per-type sums, the
\* four amounts, and the percentages or the exception
Allocate ==
    /\ pc = "portfolio"
    /\ \E f \in {Figures(all_assets, today)} :
       \E b \in {Buckets(f, FlInt(0))} :
       \E r \in {AllocationAfter(MfRaised(all_assets.mutual_funds), b)} :
          /\ allocation' = r.value
          /\ raised' = r.raised
    /\ pc' = "allocation_done"
    /\ UNCHANGED <<all_assets, net_worth, type_flows, all_cash_flows,
                   all_cash_flows_filtered, xirr_by_type, overall_xirr, solving,
                   today, xirrVars, outsidePortfolio>>

\* calculate_unified_portfolio_xirr(all_assets), lines 305-306
Unified ==
    /\ pc = "portfolio"
    /\ all_cash_flows' = <<>>
    /\ pc' = "stocks"
    /\ UNCHANGED <<allocation, all_assets, net_worth, type_flows, all_cash_flows_filtered,
                   xirr_by_type, overall_xirr, solving, raised, today, xirrVars,
                   outsidePortfolio>>

\* The section of asset type t, up to its call of xirr: lines 309-331,
\* 334-355, 358-375, 378-395 and 398-415.  "xirr(flows) if len(flows) >= 2
\* else None" starts the solver or stores None at once.
Collect(t) ==
    /\ pc = t
    /\ \E c \in {Section(t, all_assets, today)} :
          /\ type_flows' = [type_flows EXCEPT ![t] = c.own]
          /\ all_cash_flows' = all_cash_flows \o c.shared
          /\ IF c.raised # NoException
             THEN /\ raised' = c.raised
                  /\ pc' = "unified_done"
                  /\ UNCHANGED <<cash_flows, solving, xirr_by_type>>
             ELSE IF Len(c.own) >= 2
             THEN /\ cash_flows' = AsDates(c.own)
                  /\ solving' = t
                  /\ pc' = "xirr"
                  /\ UNCHANGED <<raised, xirr_by_type>>
             ELSE /\ xirr_by_type' = [xirr_by_type EXCEPT ![t] = Reported(None)]
                  /\ pc' = After(t)
                  /\ UNCHANGED <<cash_flows, solving, raised>>
    /\ UNCHANGED <<allocation, all_assets, net_worth, all_cash_flows_filtered, overall_xirr,
                   today, normalized_flows, rate, iteration, xirr_result,
                   outsidePortfolio>>

\* lines 419-430: the net worth, the overall stream and its call of xirr
CollectOverall ==
    /\ pc = "overall"
    /\ \E r \in {calculate_total_net_worth(all_assets, today)} :
          IF r.raised # NoException
          THEN /\ raised' = r.raised
               /\ pc' = "unified_done"
               /\ UNCHANGED <<net_worth, all_cash_flows_filtered, cash_flows,
                              solving, overall_xirr>>
          ELSE /\ net_worth' = r.value
               /\ all_cash_flows_filtered' =
                      OverallStream(all_cash_flows, r.value.total, today)
               /\ IF Len(all_cash_flows_filtered') >= 2
                  THEN /\ cash_flows' = AsDates(all_cash_flows_filtered')
                       /\ solving' = "overall"
                       /\ pc' = "xirr"
                       /\ UNCHANGED overall_xirr
                  ELSE /\ overall_xirr' = Reported(None)
                       /\ pc' = After("overall")
                       /\ UNCHANGED <<cash_flows, solving>>
               /\ UNCHANGED raised
    /\ UNCHANGED <<allocation, all_assets, type_flows, all_cash_flows, xirr_by_type, today,
                   normalized_flows, rate, iteration, xirr_result,
                   outsidePortfolio>>

\* The call of xirr has ended: lines 331, 355, 375, 395, 415 and 433 store
\* "round(x * 100, 2) if x else None"; an exception of the solver leaves the
\* aggregator too.  The locals of the call are gone.
Report ==
    /\ pc = "xirr_done"
    /\ solving # "none"
    /\ IF xirr_result = OverflowError
       THEN /\ raised' = xirr_result.kind
            /\ pc' = "unified_done"
            /\ UNCHANGED <<xirr_by_type, overall_xirr>>
       ELSE /\ IF solving = "overall"
               THEN /\ overall_xirr' = Reported(xirr_result)
                    /\ UNCHANGED xirr_by_type
               ELSE /\ xirr_by_type' =
                          [xirr_by_type EXCEPT ![solving] = Reported(xirr_result)]
                    /\ UNCHANGED overall_xirr
            /\ pc' = After(solving)
            /\ UNCHANGED raised
    /\ solving' = "none"
    /\ cash_flows' = <<>>
    /\ normalized_flows' = <<>>
    /\ rate' = FlInt(0)
    /\ iteration' = 0
    /\ xirr_result' = Pending
    /\ UNCHANGED <<allocation, all_assets, net_worth, type_flows, all_cash_flows,
                   all_cash_flows_filtered, today, outsidePortfolio>>

NextPortfolio ==
    \/ NetWorth
    \/ Allocate
    \/ Unified
    \/ \E t \in AssetTypes : Collect(t)
    \/ CollectOverall
    \/ XirrEnter
    \/ XirrIterate
    \/ XirrExhausted
    \/ Report

SpecPortfolio == InitPortfolio /\ [][NextPortfolio]_vars

-----------------------------------------------------------------------------
(* parse_zone as a call: the argument is drawn, the call returns or raises *)

\* the arguments: None, and every text of up to MaxZoneLen characters
ZoneStrings ==
    {NoneStr} \cup { Str(t) : t \in UNION { [1..n -> ZoneChars] : n \in 0..MaxZoneLen } }

InitZone ==
    /\ zone_str \in ZoneStrings
    /\ zone_result = ZonePending
    /\ pc = "zone"
    /\ today \in Todays
    /\ transactions = <<>>
    /\ sorted_transactions = <<>>
    /\ idx = 0
    /\ holdings = <<>>
    /\ oversold = <<>>
    /\ symbol_in = <<>>
    /\ symbol_out = <<>>
    /\ calls = <<>>
    /\ XirrIdle
    /\ PortfolioIdle
    /\ MfIdle

\* parse_zone(zone_str), lines 7-38
ParseZone ==
    /\ pc = "zone"
    /\ zone_result' = parse_zone(zone_str)
    /\ pc' = "zone_done"
    /\ UNCHANGED <<zone_str, outsideZone>>

NextZone == ParseZone

SpecZone == InitZone /\ [][NextZone]_vars

-----------------------------------------------------------------------------
(* calculate_mf_holdings as a state machine, and the two ledgers together  *)

MaxMfTxns == 3

\* two schemes: rows of the first hold no scheme_id and are keyed by their
\* code, rows of the second hold an id and are keyed by it
SchemeCodes == {"119551", "120503"}

SchemeIdOf(code) == IF code = "119551" THEN <<>> ELSE <<"id:7">>

SchemeNameOf(code) == IF code = "119551" THEN "Fund" ELSE "Other"

\* an object with the attributes calculate_mf_holdings reads
MfRow(code, type, units, nav, amount, date) ==
    [scheme_id        |-> SchemeIdOf(code),
     scheme_code      |-> code,
     scheme_name      |-> SchemeNameOf(code),
     transaction_type |-> type,
     units            |-> units,
     nav              |-> nav,
     amount           |-> amount,
     transaction_date |-> date]

\* the same transaction as a row of mutual_fund_transactions (app.py:187-198)
TableRow(t) == [f \in DOMAIN t \ {"scheme_id"} |-> t[f]]

\* a row with neither id nor code
Nameless == [MfRow("119551", "BUY", FlInt(10), FlInt(33), FlInt(330), 50)
                EXCEPT !.scheme_code = ""]

\* type, units and amount of the transactions of the histories; the NAV is
\* 33 throughout, so that amount = units x nav in the first, third and
\* fourth and not in the second, and SWITCH is a type the ledger passes over
MfDeals ==
    { <<"BUY", 10, 330>>, <<"BUY", 7, 330>>, <<"SELL", 10, 330>>,
      <<"SELL", 7, 231>>, <<"SWITCH", 10, 330>> }

MfTrades ==
    { MfRow(code, x[1], FlInt(x[2]), FlInt(33), FlInt(x[3]), d) :
        code \in SchemeCodes, x \in MfDeals, d \in TwoDates }

\* the histories: objects with scheme_id, single rows of the table, and the
\* row with neither id nor code
MfLists ==
    UNION { [1..n -> MfTrades] : n \in 0..MaxMfTxns }
      \cup { <<TableRow(t)>> : t \in MfTrades }
      \cup { <<Nameless>> }

InitMf ==
    /\ mf_transactions \in MfLists
    /\ mf_sorted = <<>>
    /\ mf_idx = 0
    /\ mf_holdings = <<>>
    /\ mf_raised = NoException
    /\ mf_xirr = Unset
    /\ pc = "mf_start"
    /\ today \in Todays
    /\ transactions = <<>>
    /\ sorted_transactions = <<>>
    /\ idx = 0
    /\ holdings = <<>>
    /\ oversold = <<>>
    /\ symbol_in = <<>>
    /\ symbol_out = <<>>
    /\ calls = <<>>
    /\ XirrIdle
    /\ PortfolioIdle
    /\ ZoneIdle

\* lines 22-28: {} for no transaction, else the dict and the sorted list
MfSort ==
    /\ pc = "mf_start"
    /\ IF mf_transactions = <<>>
       THEN /\ pc' = "mf_done"
            /\ UNCHANGED <<mf_sorted, mf_idx>>
       ELSE /\ mf_sorted' = sorted(mf_transactions)
            /\ mf_idx' = 1
            /\ pc' = "mf_loop"
    /\ mf_holdings' = <<>>
    /\ UNCHANGED <<mf_transactions, mf_raised, mf_xirr, xirrVars, outsideMf>>

\* lines 30-101: one iteration of the for loop; on a row without scheme_id
\* line 32 raises and the call ends with nothing returned
MfProcessTransaction ==
    /\ pc = "mf_loop"
    /\ mf_idx <= Len(mf_sorted)
    /\ IF HasSchemeId(mf_sorted[mf_idx])
       THEN /\ mf_holdings' = MfProcessOne(mf_holdings, mf_sorted[mf_idx])
            /\ mf_idx' = mf_idx + 1
            /\ UNCHANGED <<mf_raised, pc>>
       ELSE /\ mf_raised' = AttributeError
            /\ mf_holdings' = <<>>
            /\ pc' = "mf_done"
            /\ UNCHANGED mf_idx
    /\ UNCHANGED <<mf_transactions, mf_sorted, mf_xirr, xirrVars, outsideMf>>

\* line 103: return holdings
MfReturn ==
    /\ pc = "mf_loop"
    /\ mf_idx > Len(mf_sorted)
    /\ pc' = "mf_done"
    /\ UNCHANGED <<mfVars, xirrVars, outsideMf>>

NextMf == MfSort \/ MfProcessTransaction \/ MfReturn

\* stock transactions of the types BUY and SELL and of one more
TypedTransactions ==
    { [stock_symbol     |-> sym,
       stock_name       |-> NameOf(sym),
       transaction_type |-> ty,
       quantity         |-> q,
       price            |-> PriceOn(d),
       transaction_date |-> d] :
      sym \in Symbols, ty \in {"BUY", "SELL", "BONUS"}, q \in Quantities,
      d \in {100} }

\* either ledger on one history
InitLedgers ==
    \/ LedgerInit(ListsOf(TypedTransactions))
    \/ InitMf

NextLedgers == Next \/ NextMf

SpecLedgers == InitLedgers /\ [][NextLedgers]_vars

-----------------------------------------------------------------------------
(* calculate_mf_xirr (utils/mutual_funds.py) as a state machine            *)

MaxMfXirrTxns == 2

\* lines 124-135: a flow per BUY and per SELL, in the order of the argument
MfTransactionFlows(rows) ==
    [i \in 1..Len(Trades(rows)) |->
        [date   |-> Trades(rows)[i].transaction_date,
         amount |-> MfAmount(Trades(rows)[i])]]

\* line 146: next((t.nav for t in reversed(transactions)
\*                 if t.scheme_code == scheme_code), 0),
\* scheme_code being the key of the holding
RECURSIVE last_nav(_, _)
last_nav(rows, scheme_code) ==
    IF rows = <<>> THEN FlInt(0)
    ELSE IF rows[Len(rows)].scheme_code = scheme_code THEN rows[Len(rows)].nav
    ELSE last_nav(SubSeq(rows, 1, Len(rows) - 1), scheme_code)

\* line 143: the holdings with units > 0, in the order of the dict
WithUnits(hs) == SelectSeq(hs, LAMBDA h : Positive(h.units))

\* lines 142-148: a flow dated today per holding with units > 0, open being
\* those holdings
HoldingFlows(open, rows, now) ==
    [i \in 1..Len(open) |->
        [date   |-> now,
         amount |-> FlMul(open[i].units, last_nav(rows, open[i].key))]]

\* what calculate_mf_xirr returns: None, or the rate xirr returned
MfXirrResult(result) == [kind |-> result.kind, value |-> result.rate]

\* a purchase a year ago; sales today of all the units above and far below
\* their cost and of half of them; the same for the scheme keyed by its id
MfXirrDeals ==
    { <<"BUY", FlInt(10), FlInt(100), FlInt(1000)>>,
      <<"SELL", FlInt(10), FlInt(110), FlInt(1100)>>,
      <<"SELL", FlInt(10), FlRatio(1, 10), FlInt(1)>>,
      <<"SELL", FlInt(5), FlInt(110), FlInt(550)>> }

MfXirrTrades ==
    { MfRow(code, x[1], x[2], x[3], x[4], d) :
        code \in SchemeCodes, x \in MfXirrDeals, d \in {1095, 1460} }

MfXirrLists ==
    UNION { [1..n -> MfXirrTrades] : n \in 0..MaxMfXirrTxns }
      \cup { <<TableRow(t)>> : t \in MfXirrTrades }

InitMfXirr ==
    /\ mf_transactions \in MfXirrLists
    /\ mf_sorted = <<>>
    /\ mf_idx = 0
    /\ mf_holdings = <<>>
    /\ mf_raised = NoException
    /\ mf_xirr = Unset
    /\ pc = "mf_xirr"
    /\ today \in PortfolioTodays
    /\ transactions = <<>>
    /\ sorted_transactions = <<>>
    /\ idx = 0
    /\ holdings = <<>>
    /\ oversold = <<>>
    /\ symbol_in = <<>>
    /\ symbol_out = <<>>
    /\ calls = <<>>
    /\ XirrIdle
    /\ PortfolioIdle
    /\ ZoneIdle

\* lines 118-150, up to the call of xirr: None for no transaction, the
\* exception of calculate_mf_holdings, or xirr entered with the flows
MfXirrEnter ==
    /\ pc = "mf_xirr"
    /\ IF mf_transactions = <<>>
       THEN /\ mf_xirr' = MfXirrResult(None)
            /\ pc' = "mf_xirr_done"
            /\ UNCHANGED <<mf_raised, mf_holdings, cash_flows>>
       ELSE \E r \in {calculate_mf_holdings(mf_transactions)} :
               IF r.raised # NoException
               THEN /\ mf_raised' = r.raised
                    /\ pc' = "mf_xirr_done"
                    /\ UNCHANGED <<mf_xirr, mf_holdings, cash_flows>>
               ELSE \E open \in {WithUnits(r.holdings)} :
                       /\ mf_holdings' = r.holdings
                       /\ cash_flows' =
                             MfTransactionFlows(mf_transactions)
                             \o HoldingFlows(open, mf_transactions, today)
                       /\ pc' = "xirr"
                       /\ UNCHANGED <<mf_xirr, mf_raised>>
    /\ UNCHANGED <<mf_transactions, mf_sorted, mf_idx, normalized_flows, rate,
                   iteration, xirr_result, outsideMf>>

\* line 150: return xirr(cash_flows); an exception of the solver leaves
\* calculate_mf_xirr too
MfXirrReturn ==
    /\ pc = "xirr_done"
    /\ IF xirr_result = OverflowError
       THEN mf_raised' = xirr_result.kind /\ UNCHANGED mf_xirr
       ELSE mf_xirr' = MfXirrResult(xirr_result) /\ UNCHANGED mf_raised
    /\ pc' = "mf_xirr_done"
    /\ UNCHANGED <<mf_transactions, mf_sorted, mf_idx, mf_holdings, xirrVars,
                   outsideMf>>

NextMfXirr ==
    \/ MfXirrEnter
    \/ XirrEnter
    \/ XirrIterate
    \/ XirrExhausted
    \/ MfXirrReturn

SpecMfXirr == InitMfXirr /\ [][NextMfXirr]_vars

-----------------------------------------------------------------------------
(* Properties of the FIFO lot ledger                                       *)

Min(a, b) == IF a < b THEN a ELSE b

\* sum of quantity * unit cost over a queue of lots
RECURSIVE SumCost(_)
SumCost(lots) ==
    IF lots = <<>> THEN 0 ELSE Head(lots)[2] * Head(lots)[3] + SumCost(Tail(lots))

\* a step that runs one iteration of the for loop
LoopStep == pc = "loop" /\ idx <= Len(sorted_transactions) /\ idx' = idx + 1

CurrentTxn == sorted_transactions[idx]

\* the queue of the bucket txn resolves to, before the iteration
LotsBefore(txn) ==
    LET k == BucketOf(holdings, txn)
    IN IF k <= Len(holdings) THEN holdings[k].lots ELSE <<>>

BucketBefore(txn) ==
    LET k == BucketOf(holdings, txn)
    IN IF k <= Len(holdings) THEN holdings[k] ELSE NewBucket(txn.stock_symbol, txn)

\* A SELL of q units at price turned queue L into L2 and added pnl to the
\* realized P&L by consuming from the head only: the first n lots are gone,
\* lot n + 1 may be reduced, every later lot is untouched, and the P&L is that
\* of the consumed units against their own lots' unit costs.
ConsumedFromHead(L, L2, q, price, pnl) ==
    LET n == Len(L) - Len(L2) IN
    /\ n >= 0
    /\ \A j \in 2..Len(L2) : L2[j] = L[n + j]
    /\ L2 # <<>> => /\ L2[1][1] = L[n + 1][1]
                    /\ L2[1][3] = L[n + 1][3]
                    /\ L2[1][2] <= L[n + 1][2]
    /\ LET gone == SubSeq(L, 1, n)
           used == IF L2 = <<>> THEN 0 ELSE L[n + 1][2] - L2[1][2]
           cost == IF L2 = <<>> THEN 0 ELSE L[n + 1][3]
       IN /\ SumQuantity(gone) + used = Min(q, SumQuantity(L))
          /\ pnl = price * SumQuantity(gone) - SumCost(gone) + (price - cost) * used

FifoExample ==
    << [stock_symbol |-> ABC, stock_name |-> ABC, transaction_type |-> "BUY",
        quantity |-> 10, price |-> 100, transaction_date |-> 50],
       [stock_symbol |-> ABC, stock_name |-> ABC, transaction_type |-> "BUY",
        quantity |-> 10, price |-> 200, transaction_date |-> 100],
       [stock_symbol |-> ABC, stock_name |-> ABC, transaction_type |-> "SELL",
        quantity |-> 10, price |-> 150, transaction_date |-> 140] >>

\* C1: every SELL consumes the lots of its bucket from the head of the queue
\* only (a lot is reduced only when all earlier lots are gone) and books the
\* P&L of the consumed units against those lots' unit costs; BUY 10@100,
\* BUY 10@200, SELL 10@150 ends with realized_pnl 500, quantity 10 and
\* invested_amount 2000.
C1_FifoOrder ==
    [][ /\ (LoopStep /\ CurrentTxn.transaction_type = "SELL") =>
              LET k == BucketOf(holdings, CurrentTxn) IN
              ConsumedFromHead(LotsBefore(CurrentTxn), holdings'[k].lots,
                               CurrentTxn.quantity, CurrentTxn.price,
                               holdings'[k].realized_pnl
                                   - BucketBefore(CurrentTxn).realized_pnl)
        /\ (pc' = "done" /\ sorted_transactions' = FifoExample) =>
              /\ Len(holdings') = 1
              /\ holdings'[1].realized_pnl = 500
              /\ holdings'[1].quantity = 10
              /\ holdings'[1].invested_amount = 2000 ]_vars

C1_Witness ==
    /\ pc = "done"
    /\ sorted_transactions = FifoExample
    /\ transactions # FifoExample
    /\ holdings[1].realized_pnl = 500
    /\ holdings[1].quantity = 10
    /\ holdings[1].invested_amount = 2000

RECURSIVE NeverOversold(_, _)
NeverOversold(txns, held) ==
    IF txns = <<>> THEN TRUE
    ELSE LET t  == Head(txns)
             h2 == IF t.transaction_type = "BUY" THEN held + t.quantity
                   ELSE IF t.transaction_type = "SELL" THEN held - t.quantity
                   ELSE held
         IN h2 >= 0 /\ NeverOversold(Tail(txns), h2)

\* total quantity * price of the transactions of one type
RECURSIVE Turnover(_, _)
Turnover(txns, type) ==
    IF txns = <<>> THEN 0
    ELSE (IF Head(txns).transaction_type = type
          THEN Head(txns).quantity * Head(txns).price ELSE 0)
         + Turnover(Tail(txns), type)

C5_OversellNotClamped ==
    [][ (/\ LoopStep
         /\ CurrentTxn.transaction_type = "SELL"
         /\ CurrentTxn.quantity > SumQuantity(LotsBefore(CurrentTxn))) =>
            LET k   == BucketOf(holdings, CurrentTxn)
                b   == BucketBefore(CurrentTxn)
                txn == CurrentTxn
            IN /\ pc' = "loop"
               /\ holdings'[k].lots = <<>>
               /\ holdings'[k].quantity = b.quantity - txn.quantity
               /\ holdings'[k].invested_amount = b.invested_amount - SumCost(b.lots)
               /\ holdings'[k].realized_pnl =
                      b.realized_pnl + txn.price * SumQuantity(b.lots) - SumCost(b.lots) ]_vars

C5_Witness ==
    /\ pc = "loop"
    /\ \E k \in 1..Len(holdings) :
          /\ Len(holdings[k].transactions) = 2
          /\ holdings[k].transactions[2].transaction_type = "SELL"
          /\ holdings[k].quantity < 0
          /\ holdings[k].lots = <<>>
          /\ holdings[k].invested_amount = 0
          /\ holdings[k].realized_pnl # 0

\* C6: realized_pnl is cumulative: only a SELL changes it, and only in its own
\* bucket; every bucket is returned with the realized_pnl it has accumulated,
\* and one whose quantity is back to 0 has has_current_holdings false and
\* holding_period_days 0.
C6_RealizedPnlCumulative ==
    [][ /\ LoopStep =>
              /\ \A k \in 1..Len(holdings) :
                    holdings'[k].realized_pnl # holdings[k].realized_pnl =>
                        /\ CurrentTxn.transaction_type = "SELL"
                        /\ k = BucketOf(holdings, CurrentTxn)
              /\ \A k \in (Len(holdings) + 1)..Len(holdings') :
                    holdings'[k].realized_pnl = 0
        /\ (pc = "loop" /\ pc' = "done") =>
              /\ Len(holdings') = Len(holdings)
              /\ \A k \in 1..Len(holdings) :
                    /\ holdings'[k].symbol = holdings[k].symbol
                    /\ holdings'[k].realized_pnl = holdings[k].realized_pnl
                    /\ holdings[k].quantity = 0 =>
                          /\ holdings'[k].has_current_holdings = FALSE
                          /\ holdings'[k].holding_period_days = 0 ]_vars

C6_Witness ==
    /\ pc = "done"
    /\ \E k \in 1..Len(holdings) :
          /\ holdings[k].quantity = 0
          /\ holdings[k].realized_pnl # 0
          /\ holdings[k].has_current_holdings = FALSE
          /\ holdings[k].holding_period_days = 0

Reorderings(n) ==
    { p \in [1..n -> 1..n] : \A i, j \in 1..n : i # j => p[i] # p[j] }

DistinctDates(txns) ==
    \A i, j \in 1..Len(txns) :
        i # j => txns[i].transaction_date # txns[j].transaction_date

\* what C7 compares: keys, quantity, invested_amount and realized_pnl
Summary(h) ==
    [k \in 1..Len(h) |->
        <<h[k].symbol, h[k].quantity, h[k].invested_amount, h[k].realized_pnl>>]

\* C7: transactions are processed in ascending date order whatever the order
\* of the input list: every permutation of a list whose dates are pairwise
\* distinct gives the same buckets (keys, quantity, invested_amount,
\* realized_pnl).
C7_OrderIndependent ==
    /\ pc \in {"loop", "done"} =>
          \A i, j \in 1..Len(sorted_transactions) :
              i < j => sorted_transactions[i].transaction_date
                           <= sorted_transactions[j].transaction_date
    /\ (pc = "done" /\ DistinctDates(transactions)) =>
          \A p \in Reorderings(Len(transactions)) :
              Summary(calculate_holdings(
                          [i \in 1..Len(transactions) |-> transactions[p[i]]], today))
                  = Summary(holdings)

C7_Witness ==
    /\ pc = "done"
    /\ Len(transactions) = 3
    /\ DistinctDates(transactions)
    /\ transactions # sorted_transactions
    /\ transactions[1].transaction_type = "SELL"
    /\ \A k \in 1..Len(holdings) : holdings[k].quantity >= 0
    /\ \E k \in 1..Len(holdings) : holdings[k].realized_pnl # 0

\* the processed transactions whose symbols normalize like a bucket's key
SameInstrument(key) ==
    SelectSeq(SubSeq(sorted_transactions, 1,
                     IF pc = "done" THEN Len(sorted_transactions) ELSE idx - 1),
              LAMBDA t : normalize_symbol(t.stock_symbol) = normalize_symbol(key))

RECURSIVE NetQuantity(_)
NetQuantity(txns) ==
    IF txns = <<>> THEN 0
    ELSE (IF Head(txns).transaction_type = "BUY" THEN Head(txns).quantity
          ELSE IF Head(txns).transaction_type = "SELL" THEN 0 - Head(txns).quantity
          ELSE 0)
         + NetQuantity(Tail(txns))

\* C8: transactions whose symbols normalize alike accumulate into exactly one
\* bucket, with their combined quantity, keyed by the literal symbol of the
\* first of them in processing order; no two keys share a normalized symbol.
C8_SymbolMerge ==
    pc \in {"loop", "done"} =>
        /\ \A j, k \in 1..Len(holdings) :
              j # k => normalize_symbol(holdings[j].symbol)
                           # normalize_symbol(holdings[k].symbol)
        /\ \A k \in 1..Len(holdings) :
              LET mine == SameInstrument(holdings[k].symbol)
              IN /\ mine # <<>>
                 /\ holdings[k].symbol = mine[1].stock_symbol
                 /\ holdings[k].transactions = mine
                 /\ holdings[k].quantity = NetQuantity(mine)
        /\ \A t \in {sorted_transactions[i] : i \in 1..(idx - 1)} :
              \E k \in 1..Len(holdings) :
                  normalize_symbol(holdings[k].symbol) = normalize_symbol(t.stock_symbol)

C8_Witness ==
    /\ pc = "done"
    /\ Len(holdings) = 1
    /\ holdings[1].symbol = ABC_NS
    /\ Len(holdings[1].transactions) = 3
    /\ holdings[1].transactions[2].stock_symbol = ABC
    /\ holdings[1].transactions[3].stock_symbol = ABC_BO
    /\ holdings[1].quantity = 30

\* every spelling, in either case, of the two recognized exchange suffixes
SuffixForms ==
    { <<".", n, x>> : n \in {"N", "n"}, x \in {"S", "s"} }
        \cup { <<".", b, o>> : b \in {"B", "b"}, o \in {"O", "o"} }

\* C9: normalize_symbol strips a recognized suffix whatever its case and
\* upper-cases the rest: for a base symbol b and any case variant of .NS or
\* .BO, the result on b + suffix is normalize_symbol(b) = upper(b).
C9_SuffixStrippedAnyCase ==
    (pc = "normalized" /\ Len(symbol_in) > 3) =>
        LET n    == Len(symbol_in)
            base == SubSeq(symbol_in, 1, n - 3)
        IN (/\ SubSeq(symbol_in, n - 2, n) \in SuffixForms
            /\ \A i \in 1..(n - 3) : base[i] # ".") =>
               /\ symbol_out = normalize_symbol(base)
               /\ symbol_out = StrUpper(base)

\* the quantity-weighted average age of a queue of lots, in whole days
RECURSIVE SumAgeQuantity(_, _)
SumAgeQuantity(lots, now) ==
    IF lots = <<>> THEN 0
    ELSE (now - Head(lots)[1]) * Head(lots)[2] + SumAgeQuantity(Tail(lots), now)

AverageAge(lots, now) == SumAgeQuantity(lots, now) \div SumQuantity(lots)

\* C10: holding_period_days is the quantity-weighted average of the ages of
\* the remaining lots, truncated to an integer (10 units aged 100 days and 10
\* aged 50 give 75); it is 0 when no lots remain or the quantity is not positive.
C10_HoldingPeriodIsWeightedAverage ==
    [][ (pc = "loop" /\ pc' = "done") =>
            \A k \in 1..Len(holdings) :
                holdings'[k].holding_period_days =
                    IF holdings[k].lots = <<>> \/ holdings[k].quantity <= 0 THEN 0
                    ELSE AverageAge(holdings[k].lots, today) ]_vars

-----------------------------------------------------------------------------
(* Properties of calls: purity and isolation                               *)

\* C11: calculate_holdings is a pure function of its list and of today: no
\* step of a call changes the list it was given or a record in it, and two
\* calls that were given the same list return identical dicts.
C11_PureFunction ==
    [][ /\ \A c \in CallIds : calls'[c].transactions = calls[c].transactions
        /\ (/\ \A c \in CallIds : calls'[c].pc = "done"
            /\ calls'[1].transactions = calls'[2].transactions)
           => calls'[1].result = calls'[2].result ]_vars

\* two finished calls on one and the same unsorted two-transaction list
C11_Witness ==
    /\ \A c \in CallIds : calls[c].pc = "done"
    /\ calls[1].transactions = calls[2].transactions
    /\ Len(calls[1].transactions) = 2
    /\ calls[1].transactions # sorted(calls[1].transactions)
    /\ calls[1].result # <<>>
    /\ calls[1].result = calls[2].result

Untraded(txns) ==
    { sym \in Symbols :
        \A i \in 1..Len(txns) :
            normalize_symbol(txns[i].stock_symbol) # normalize_symbol(sym) }

\* C13: for an instrument without transactions the ledger returns a
\* zero-valued snapshot: quantity 0, invested_amount 0, realized_pnl 0 and
\* holding_period_days 0.
C13_EmptyInputZeroSnapshot ==
    pc = "done"
    => \A sym \in Untraded(transactions) :
         \E k \in 1..Len(holdings) :
            /\ normalize_symbol(holdings[k].symbol) = normalize_symbol(sym)
            /\ holdings[k].quantity = 0
            /\ holdings[k].invested_amount = 0
            /\ holdings[k].realized_pnl = 0
            /\ holdings[k].holding_period_days = 0

-----------------------------------------------------------------------------
(* Properties of the XIRR solver                                           *)

HasPositive(flows) ==
    \E i \in 1..Len(flows) : ~FlIsZero(flows[i].amount) /\ ~flows[i].amount.neg

HasNegative(flows) ==
    \E i \in 1..Len(flows) : ~FlIsZero(flows[i].amount) /\ flows[i].amount.neg

\* the call was entered and the loop was never reached
ReturnedBeforeLoop ==
    /\ pc = "xirr_done"
    /\ normalized_flows = <<>>
    /\ iteration = 0
    /\ rate = FlInt(0)

\* C14: given fewer than two cash flows, or amounts that do not include a
\* strictly positive and a strictly negative one, xirr returns None and its
\* loop is never entered.
C14_NotApplicableIsNone ==
    (/\ pc # "xirr"
     /\ \/ Len(cash_flows) < 2
        \/ ~HasPositive(cash_flows)
        \/ ~HasNegative(cash_flows))
    => (ReturnedBeforeLoop /\ xirr_result = None)

\* two outflows a year apart, nothing coming back: None
C14_Witness ==
    /\ cash_flows = <<[date |-> 0, amount |-> FlInt(-1000)],
                      [date |-> 365, amount |-> FlInt(-1000)]>>
    /\ ReturnedBeforeLoop
    /\ xirr_result = None

\* dnpv == 0 at the rate the last iteration evaluated, whatever pow() returned
DerivativeIsZero ==
    \A pow \in PowerTables(FlAdd(FlInt(1), rate), MaxPower(normalized_flows)) :
        FlIsZero(Accumulate(normalized_flows, 1, pow, FlInt(0), FlInt(0)).dnpv)

\* C15: the loop ends within max_iterations iterations; xirr returns None
\* when the derivative is exactly zero at the iterate it evaluated, and when
\* max_iterations iterations went by without convergence.
C15_NoneOnZeroDerivativeOrExhaustion ==
    /\ iteration <= max_iterations
    /\ (pc = "xirr_done" /\ iteration = max_iterations) => xirr_result = None
    /\ (pc = "xirr_done" /\ normalized_flows # <<>> /\ DerivativeIsZero)
       => xirr_result = None

\* C16: every rate at which the NPV and its derivative are evaluated is at
\* least -0.99, a step that lands lower being replaced by -0.99, so that the
\* base 1 + rate of the powers is strictly positive.
C16_RateAtLeastFloor ==
    pc = "newton"
    => /\ FlLe(RateFloor, rate)
       /\ FlLt(FlInt(0), FlAdd(FlInt(1), rate))

\* 1000 paid, 1 returned a year later: the step from the guess lands below
\* -0.99 and the next evaluation is at -0.99
C16_Witness ==
    /\ pc = "newton"
    /\ iteration = 1
    /\ rate = RateFloor
    /\ normalized_flows = <<[days |-> 0, amount |-> FlInt(-1000)],
                            [days |-> 365, amount |-> FlInt(1)]>>

Sanity == <<[date |-> 0, amount |-> FlInt(-1000)],
            [date |-> 365, amount |-> FlInt(1100)]>>

\* C17: 1000 paid on day d and 1100 received 365 days later give a rate
\* within the solver's tolerance of 0.10.
C17_TenPercent ==
    (pc = "xirr_done" /\ SortedFlows(cash_flows) = Sanity)
    => /\ xirr_result.kind = "rate"
       /\ FlLt(FlAbs(FlSub(xirr_result.rate, FlRatio(1, 10))), tolerance)

C17_Witness ==
    /\ pc = "xirr_done"
    /\ cash_flows = Sanity
    /\ xirr_result.kind = "rate"
    /\ FlLt(FlAbs(FlSub(xirr_result.rate, FlRatio(1, 10))), tolerance)

\* the deposit's principal going out, and its maturity amount coming back
\* once the maturity date is past
DepositFlows(fd, now) ==
    <<Flow(fd.start_date, FlNeg(fd.principal_amount), FALSE)>>
    \o (IF Matures(fd) /\ fd.maturity_date < now
        THEN <<Flow(fd.maturity_date, fd.maturity_amount, FALSE)>> ELSE <<>>)

\* The real cash flows of a portfolio: each stock and mutual-fund BUY and
\* SELL, each deposit's principal and its maturity amount, each opening
\* balance.
RealFlows(assets, now) ==
    StockFlows(Trades(assets.stocks))
    \o MfFlows(Trades(assets.mutual_funds))
    \o Flatten([i \in 1..Len(assets.fixed_deposits) |->
                    DepositFlows(assets.fixed_deposits[i], now)])
    \o Flatten([i \in 1..Len(assets.epf) |-> EpfOpening(assets.epf[i])])

Range(list) == { list[i] : i \in 1..Len(list) }

\* how many times x is in the list
Occurrences(list, x) == Cardinality({ i \in 1..Len(list) : list[i] = x })

\* the same (date, amount) pairs, each as many times
SameFlows(a, b) ==
    \A x \in Range(AsDates(a)) \cup Range(AsDates(b)) :
        Occurrences(AsDates(a), x) = Occurrences(AsDates(b), x)

\* the overall stream of lines 424-428 has been built
OverallBuilt ==
    \/ solving = "overall"
    \/ pc = "unified_done" /\ raised = NoException

\* C18: the overall XIRR is solved over a stream that holds every real cash
\* flow of every asset type and exactly one inflow dated today equal to the
\* total net worth when that total is positive; removing the entries dated
\* today drops no real cash flow, transactions dated today included.
C18_OverallStreamHoldsEveryRealFlow ==
    OverallBuilt
    => SameFlows(all_cash_flows_filtered,
                 RealFlows(all_assets, today)
                 \o (IF Positive(net_worth.total)
                     THEN <<Flow(today, net_worth.total, FALSE)>> ELSE <<>>))

\* the entry reported for the stream being solved: overall_xirr, or
\* xirr_by_type[t]
EntryOf(stream, overall, by_type) ==
    IF stream = "overall" THEN overall ELSE by_type[stream]

\* the solver's rate x 100, rounded to two decimals
AsPercentage(r) == Percent(FlRound2(FlMul(r, FlInt(100))))

\* a call of xirr returns into the aggregator, which goes on
SolverReturns ==
    pc = "xirr_done" /\ solving # "none" /\ pc' # "xirr_done"
    /\ raised' = NoException

\* C19: each type's entry, and overall_xirr, is the solver's result on that
\* type's own flows and its own current-value inflow: None exactly when the
\* solver was not run (fewer than two flows) or returned None, and otherwise
\* the solver's rate x 100 rounded to two decimals, a rate of 0 included.
C19_ReportsSolverResult ==
    [][ /\ \A t \in AssetTypes :
             (pc = t /\ pc' = "xirr") => cash_flows' = AsDates(type_flows'[t])
        /\ \A t \in AssetTypes :
             (pc = t /\ pc' = After(t))
             => (Len(type_flows'[t]) < 2 /\ xirr_by_type'[t] = NoneEntry)
        /\ SolverReturns
           => EntryOf(solving, overall_xirr', xirr_by_type') =
                 (IF xirr_result = None THEN NoneEntry
                  ELSE AsPercentage(xirr_result.rate)) ]_vars

\* the eight per-type figures of a returned dict, in the order of its keys
PerTypeFigures(f) ==
    <<f.stocks, f.mutual_funds, f.fixed_deposits, f.epf, f.nps, f.savings,
      f.lending, f.other>>

\* the cost of the open mutual-fund positions: of no transaction it is 0, and
\* the model holds no other list whose ledger is computed
MfInvestedInOpen(rows) ==
    FlSum(Column(SelectSeq(calculate_mf_holdings(rows).holdings,
                           LAMBDA h : Positive(h.units)),
                 "invested_amount"))

\* C20: calculate_total_net_worth returns, to two decimals, for stocks and
\* mutual_funds the invested_amount summed over the buckets of the FIFO
\* ledgers with quantity/units > 0, for fixed_deposits the principal of the
\* 'active' deposits, for lending the outstanding amount of the 'active'
\* records, for epf, nps, savings and other the recorded balances, and a
\* total equal to the sum of the eight per-type figures.
C20_NetWorthFigures ==
    pc = "net_worth_done"
    => /\ raised = NoException
       /\ net_worth.stocks =
             FlRound2(FlInt(InvestedInOpen(calculate_holdings(all_assets.stocks,
                                                              today))))
       /\ net_worth.mutual_funds =
             FlRound2(MfInvestedInOpen(all_assets.mutual_funds))
       /\ net_worth.fixed_deposits =
             FlRound2(ColumnSum(Active(all_assets.fixed_deposits),
                                "principal_amount"))
       /\ net_worth.lending =
             FlRound2(ColumnSum(Active(all_assets.lending), "outstanding_amount"))
       /\ net_worth.epf = FlRound2(ColumnSum(all_assets.epf, "current_balance"))
       /\ net_worth.nps = FlRound2(ColumnSum(all_assets.nps, "current_value"))
       /\ net_worth.savings =
             FlRound2(ColumnSum(all_assets.savings, "current_balance"))
       /\ net_worth.other =
             FlRound2(ColumnSum(Valued(all_assets.other), "value"))
       /\ net_worth.total = FlSum(PerTypeFigures(net_worth))

\* the four percentages of a returned allocation
Percentages(a) == <<a.equity, a.debt, a.cash, a.alternative>>

\* the rounding allowed on the sum of four figures of two decimals each
RoundingSlack == FlRatio(2, 100)

\* C21: get_asset_allocation returns; stocks go to equity, the cost of the
\* open mutual-fund positions 60% to equity and 40% to debt, active deposits
\* and EPF to debt, NPS half to equity and half to debt, savings to cash,
\* active lending and other investments to alternative; each bucket is
\* reported as a percentage of the sum of the four, the four percentages sum
\* to 100 up to rounding when that sum is positive and are all 0 when it is
\* not, and total_value is the total calculate_total_net_worth returns for
\* the same assets.
C21_AllocationOfNetWorth ==
    pc = "allocation_done"
    => LET b     == Buckets(Figures(all_assets, today),
                            MfInvestedInOpen(all_assets.mutual_funds))
           total == BucketTotal(b)
       IN /\ raised = NoException
          /\ allocation = Shares(b, total)
          /\ Positive(total)
                => FlLe(FlAbs(FlSub(FlSum(Percentages(allocation)), FlInt(100))),
                        RoundingSlack)
          /\ ~Positive(total)
                => \A i \in 1..4 : FlIsZero(Percentages(allocation)[i])
          /\ allocation.total_value =
                calculate_total_net_worth(all_assets, today).value.total

-----------------------------------------------------------------------------
(* Properties of parse_zone                                                *)

\* the text is a decimal number, blanks around it allowed
Numeric(t) == float(t).raised = NoException

\* the positions of the hyphens of a text
Hyphens(t) == { i \in 1..Len(t) : t[i] = "-" }

\* the pair (a, b) of the numbers two texts write
PairOf(a, b) == ZoneReturn(Float(float(a).value), Float(float(b).value))

\* the argument is a text whose stripped form is t
ZoneGiven(t) == zone_str.given /\ StrStrip(zone_str.text) = t

C23_SplitOnceOnFirstHyphen ==
    pc = "zone_done"
    => \A t \in {StrStrip(zone_str.text)} :
          (zone_str.given /\ Hyphens(t) # {})
          => \A i \in {IndexFrom(t, "-", 1)} :
                \A a \in {SubSeq(t, 1, i - 1)}, b \in {SubSeq(t, i + 1, Len(t))} :
                   zone_result = IF Numeric(a) /\ Numeric(b)
                                 THEN PairOf(a, b) ELSE NonePair

-----------------------------------------------------------------------------
(* Properties of the ledgers: order, lots, other transaction types         *)

\* the transactions of one date, in the order of the list
OnDate(s, d) == SelectSeq(s, LAMBDA t : t.transaction_date = d)

\* the dates of a list never decrease
Ascending(s) ==
    \A i, j \in 1..Len(s) : i < j => s[i].transaction_date <= s[j].transaction_date

\* C25: calculate_holdings processes the transactions by ascending date
\* and those of one date in the order of the input list: the list it walks
\* holds, for every date, the transactions of that date as the input lists
\* them, and the ledger at each point of the loop is the result of
\* processing the transactions before that point in this order, so a SELL
\* listed before a BUY of its date meets only the lots of earlier
\* transactions.
C25_SameDateInInputOrder ==
    pc = "loop"
    => /\ Ascending(sorted_transactions)
       /\ \A d \in Dates :
             OnDate(sorted_transactions, d) = OnDate(transactions, d)
       /\ holdings = ProcessAll(<<>>, SubSeq(sorted_transactions, 1, idx - 1))

\* the loop has ended on a list whose first transaction sells an instrument
\* never bought before and whose second buys it on the same date: the BUY's
\* lot is whole
C25_Witness ==
    /\ pc = "loop"
    /\ idx > Len(sorted_transactions)
    /\ Len(transactions) = 2
    /\ transactions[1].transaction_type = "SELL"
    /\ transactions[2].transaction_type = "BUY"
    /\ transactions[1].stock_symbol = transactions[2].stock_symbol
    /\ transactions[1].transaction_date = transactions[2].transaction_date
    /\ Len(holdings) = 1
    /\ Len(holdings[1].lots) = 1
    /\ holdings[1].lots[1][2] = transactions[2].quantity

\* C26: BUY quantities being positive, every lot of every queue holds a
\* positive quantity after each transaction of the stock ledger and of the
\* mutual-fund ledger: a lot consumed whole is removed by the SELL that
\* consumes it, and a lot consumed in part keeps a positive remainder.
C26_LotsArePositive ==
    /\ pc = "loop"
         => \A k \in 1..Len(holdings) :
               \A i \in 1..Len(holdings[k].lots) : holdings[k].lots[i][2] > 0
    /\ pc = "mf_loop"
         => \A k \in 1..Len(mf_holdings) :
               \A i \in 1..Len(mf_holdings[k].lots) :
                  Positive(mf_holdings[k].lots[i].units)

\* a SELL of 7 units has left 3 of the 10 units of the lot at the head
C26_Witness ==
    /\ pc = "mf_loop"
    /\ mf_idx > 1
    /\ mf_sorted[mf_idx - 1].transaction_type = "SELL"
    /\ \E k \in 1..Len(mf_holdings) :
          /\ mf_holdings[k].lots # <<>>
          /\ mf_holdings[k].lots[1].units = FlInt(3)

\* quantity or units, invested_amount, realized_pnl and lots of a bucket
LedgerFigures(b) ==
    <<IF "quantity" \in DOMAIN b THEN b.quantity ELSE b.units,
      b.invested_amount, b.realized_pnl, b.lots>>

\* a step that runs one iteration of the for loop of calculate_mf_holdings
MfLoopStep ==
    pc = "mf_loop" /\ mf_idx <= Len(mf_sorted) /\ mf_idx' = mf_idx + 1

-----------------------------------------------------------------------------
(* Properties of the mutual-fund ledger                                    *)

\* one field of every record of a list
FieldOf(s, f) == [i \in 1..Len(s) |-> s[i][f]]

\* the rows of a key and a type among the rows processed so far
Processed(key, type) ==
    SelectSeq(SubSeq(mf_sorted, 1, mf_idx - 1),
              LAMBDA t : MfKey(t) = key /\ t.transaction_type = type)

\* the loop of calculate_mf_holdings is between two transactions, or past the
\* last
MfBetweenTransactions == pc = "mf_loop" /\ mf_raised = NoException

\* C24: after any sequence of BUY and SELL transactions the invested_amount
\* of each holding of calculate_mf_holdings equals the sum of the amounts
\* of the lots left in its queue, a lot holding its caller-supplied amount
\* less the shares (u / U) x A taken from it.
C24_InvestedIsSumOfLotAmounts ==
    MfBetweenTransactions
    => \A k \in 1..Len(mf_holdings) :
          mf_holdings[k].invested_amount =
             FlSum(FieldOf(mf_holdings[k].lots, "amount"))

\* C29: for any sequence of BUY and SELL transactions, oversells included,
\* each holding of calculate_mf_holdings has realized_pnl = (sum of the
\* amounts of its SELLs) - (sum of the amounts of its BUYs) +
\* invested_amount.
C29_RealizedPnlIdentity ==
    MfBetweenTransactions
    => \A k \in 1..Len(mf_holdings) :
          mf_holdings[k].realized_pnl =
             FlAdd(FlSub(FlSum(FieldOf(Processed(mf_holdings[k].key, "SELL"), "amount")),
                         FlSum(FieldOf(Processed(mf_holdings[k].key, "BUY"), "amount"))),
                   mf_holdings[k].invested_amount)

\* the history names one scheme, every amount is units x nav, and no SELL
\* exceeds the units held when it is processed
RECURSIVE NeverOversells(_, _)
NeverOversells(rows, held) ==
    IF rows = <<>> THEN TRUE
    ELSE LET t == Head(rows)
         IN IF t.transaction_type = "BUY"
            THEN NeverOversells(Tail(rows), FlAdd(held, t.units))
            ELSE IF t.transaction_type = "SELL"
            THEN FlLe(t.units, held) /\ NeverOversells(Tail(rows), FlSub(held, t.units))
            ELSE NeverOversells(Tail(rows), held)

Comparable(rows) ==
    /\ rows # <<>>
    /\ \A i \in 1..Len(rows) :
          /\ HasSchemeId(rows[i])
          /\ rows[i].scheme_code = rows[1].scheme_code
          /\ rows[i].amount = FlMul(rows[i].units, rows[i].nav)
    /\ NeverOversells(sorted(rows), FlInt(0))

\* the stock transaction of a mutual-fund row: quantity = units, price = nav
AsStockTransaction(t) ==
    [stock_symbol     |-> ABC,
     stock_name       |-> NameOf(ABC),
     transaction_type |-> t.transaction_type,
     quantity         |-> FloatToInt(t.units),
     price            |-> FloatToInt(t.nav),
     transaction_date |-> t.transaction_date]

\* the bucket the stock ledger ends its loop with on the same history
StockBucketOf(rows) ==
    ProcessAll(<<>>, sorted([i \in 1..Len(rows) |-> AsStockTransaction(rows[i])]))[1]

\* C30: on a history of one instrument in which every amount is units x
\* nav and no SELL exceeds the units held, calculate_mf_holdings and
\* calculate_holdings (quantity = units, price = nav) end with equal units
\* and quantity, invested_amount, realized_pnl and remaining lot quantities.
C30_LedgersAgree ==
    (pc = "mf_done" /\ Comparable(mf_transactions))
    => \A b \in {StockBucketOf(mf_transactions)} :
          /\ Len(mf_holdings) = 1
          /\ mf_holdings[1].units = FlInt(b.quantity)
          /\ mf_holdings[1].invested_amount = FlInt(b.invested_amount)
          /\ mf_holdings[1].realized_pnl = FlInt(b.realized_pnl)
          /\ FieldOf(mf_holdings[1].lots, "units") =
                [i \in 1..Len(b.lots) |-> FlInt(b.lots[i][2])]

\* the last row of a scheme in the argument
RECURSIVE LastOfScheme(_, _)
LastOfScheme(rows, code) ==
    IF rows[Len(rows)].scheme_code = code THEN rows[Len(rows)]
    ELSE LastOfScheme(SubSeq(rows, 1, Len(rows) - 1), code)

\* the holdings with units > 0, in the order of the dict
OpenHoldings == WithUnits(mf_holdings)

\* the flows calculate_mf_xirr appended after those of the transactions
AppendedFlows ==
    SubSeq(cash_flows, Len(Trades(mf_transactions)) + 1, Len(cash_flows))

\* C27: when calculate_mf_xirr calls xirr it has appended, for every
\* scheme whose holding has units > 0 and for no other, one inflow dated
\* today, strictly positive and equal to the units times the NAV of the last
\* transaction of the scheme, whether the holding's key is the scheme_id or
\* the scheme_code.
C27_OneInflowPerOpenScheme ==
    (pc = "xirr" /\ mf_transactions # <<>>)
    => /\ Len(AppendedFlows) = Len(OpenHoldings)
       /\ \A i \in 1..Len(OpenHoldings) :
             /\ AppendedFlows[i].date = today
             /\ Positive(AppendedFlows[i].amount)
             /\ AppendedFlows[i].amount =
                   FlMul(OpenHoldings[i].units,
                         LastOfScheme(mf_transactions,
                                      OpenHoldings[i].scheme_code).nav)

====
